---- MODULE Spec2Model ----
(***************************************************************************)
(* The TRD markdown parser of the two formatter components,                *)
(* EditableTRDFormatter (ReactFlowDiagram.js) and ProfessionalTRDFormatter *)
(* (EnhancedDocumentViewer.js).  parseContent is a loop over the lines of  *)
(* the document; one loop iteration is one step of the model.              *)
(*                                                                         *)
(* A JavaScript string is a sequence of one-character strings, so that     *)
(* trim, split, includes, startsWith, toUpperCase and the regular          *)
(* expressions of the source are computed on the characters.               *)
(***************************************************************************)
EXTENDS Integers, Sequences, FiniteSets, TLC

\* -------------------------------------------------------------------------
\* String primitives of the JavaScript runtime
\* -------------------------------------------------------------------------

MinOf(S) == CHOOSE x \in S : \A y \in S : x <= y

MaxOf(S) == CHOOSE x \in S : \A y \in S : x >= y

\* s.startsWith(p)
StartsWith(s, p) == Len(s) >= Len(p) /\ SubSeq(s, 1, Len(p)) = p

\* s.includes(p)
Includes(s, p) == \E k \in 1..(Len(s) - Len(p) + 1) : SubSeq(s, k, k + Len(p) - 1) = p

\* the characters \s matches (of those the documents use)
IsSpace(c) == c \in {" ", "\t", "\r"}

\* the character U+0060 (the lexer of TLA+ reads no such character in a string)
Backtick == "U+0060"

IsDigit(c) == c \in {"0", "1", "2", "3", "4", "5", "6", "7", "8", "9"}

LowerAlphabet == <<"a", "b", "c", "d", "e", "f", "g", "h", "i", "j", "k", "l", "m",
                   "n", "o", "p", "q", "r", "s", "t", "u", "v", "w", "x", "y", "z">>

UpperAlphabet == <<"A", "B", "C", "D", "E", "F", "G", "H", "I", "J", "K", "L", "M",
                   "N", "O", "P", "Q", "R", "S", "T", "U", "V", "W", "X", "Y", "Z">>

IsUpper(c) == \E k \in DOMAIN UpperAlphabet : UpperAlphabet[k] = c

IsLower(c) == \E k \in DOMAIN LowerAlphabet : LowerAlphabet[k] = c

\* s.toUpperCase()
ToUpperCase(s) ==
    [k \in 1..Len(s) |->
        IF IsLower(s[k])
        THEN UpperAlphabet[CHOOSE j \in DOMAIN LowerAlphabet : LowerAlphabet[j] = s[k]]
        ELSE s[k]]

\* s.toLowerCase()
ToLowerCase(s) ==
    [k \in 1..Len(s) |->
        IF IsUpper(s[k])
        THEN LowerAlphabet[CHOOSE j \in DOMAIN UpperAlphabet : UpperAlphabet[j] = s[k]]
        ELSE s[k]]

\* s.trim()
Trim(s) ==
    LET ns == {k \in 1..Len(s) : ~IsSpace(s[k])}
    IN  IF ns = {} THEN <<>> ELSE SubSeq(s, MinOf(ns), MaxOf(ns))

\* s.split(c) for a one-character separator c: always at least one piece
Split(s, c) ==
    LET P == {k \in 1..Len(s) : s[k] = c}
        n == Cardinality(P)
        pos(j) == IF j = 0 THEN 0
                  ELSE IF j = n + 1 THEN Len(s) + 1
                  ELSE CHOOSE p \in P : Cardinality({q \in P : q < p}) = j - 1
    IN  [j \in 1..(n + 1) |-> SubSeq(s, pos(j - 1) + 1, pos(j) - 1)]

\* pieces.join(c)
RECURSIVE Join(_, _)
Join(pieces, c) ==
    IF pieces = <<>> THEN <<>>
    ELSE IF Len(pieces) = 1 THEN pieces[1]
    ELSE pieces[1] \o <<c>> \o Join(Tail(pieces), c)

\* length of the longest prefix of s whose characters all satisfy the class
RunLength(s, InClass(_)) ==
    LET stops == {k \in 1..Len(s) : ~InClass(s[k])}
    IN  IF stops = {} THEN Len(s) ELSE MinOf(stops) - 1

DropFirst(s, n) == SubSeq(s, n + 1, Len(s))

\* String(n) of a non-negative integer, as in a template literal ${n}
RECURSIVE NumberToString(_)
NumberToString(n) ==
    LET digit == <<"0", "1", "2", "3", "4", "5", "6", "7", "8", "9">>[(n % 10) + 1]
    IN  IF n < 10 THEN <<digit>> ELSE NumberToString(n \div 10) \o <<digit>>

\* -------------------------------------------------------------------------
\* The regular expressions of parseContent and formatLine
\* -------------------------------------------------------------------------

IsHash(c) == c = "#"

\* s.replace(/^#+\s*/, '')
StripLeadingHashes(s) ==
    LET h == RunLength(s, IsHash)
    IN  IF h = 0 THEN s
        ELSE LET rest == DropFirst(s, h) IN DropFirst(rest, RunLength(rest, IsSpace))

\* s.replace(/\*\*/g, '')
RECURSIVE RemoveAllBoldMarkers(_)
RemoveAllBoldMarkers(s) ==
    IF Len(s) < 2 THEN s
    ELSE IF SubSeq(s, 1, 2) = <<"*", "*">> THEN RemoveAllBoldMarkers(DropFirst(s, 2))
    ELSE <<s[1]>> \o RemoveAllBoldMarkers(Tail(s))

\* s.replace(':', ''): the first colon only
RemoveFirstColon(s) ==
    LET at == {k \in 1..Len(s) : s[k] = ":"}
    IN  IF at = {} THEN s
        ELSE SubSeq(s, 1, MinOf(at) - 1) \o DropFirst(s, MinOf(at))

\* /^\d+\./.test(s)
TestNumbered(s) ==
    LET d == RunLength(s, IsDigit)
    IN  d >= 1 /\ Len(s) > d /\ s[d + 1] = "."

\* s.match(/^\d+/): <<>> for null, else <<the match>>
MatchLeadingDigits(s) ==
    LET d == RunLength(s, IsDigit)
    IN  IF d = 0 THEN <<>> ELSE <<SubSeq(s, 1, d)>>

\* s.replace(/^\d+\.\s*/, '')
StripNumber(s) ==
    IF ~TestNumbered(s) THEN s
    ELSE LET rest == DropFirst(s, RunLength(s, IsDigit) + 1)
         IN  DropFirst(rest, RunLength(rest, IsSpace))

\* s.replace(/^[-*]\s*/, '')
StripBullet(s) ==
    IF s # <<>> /\ s[1] \in {"-", "*"}
    THEN LET rest == Tail(s) IN DropFirst(rest, RunLength(rest, IsSpace))
    ELSE s

\* length of the match of /^<prefix>-\d+/ at the start of s, 0 when none
TagLength(s, prefix) ==
    IF StartsWith(s, prefix \o <<"-">>)
    THEN LET d == RunLength(DropFirst(s, Len(prefix) + 1), IsDigit)
         IN  IF d = 0 THEN 0 ELSE Len(prefix) + 1 + d
    ELSE 0

\* /^REQ-\d+|^FR-\d+|^NFR-\d+/.test(s)
TestRequirement(s) ==
    \/ TagLength(s, <<"R", "E", "Q">>) > 0
    \/ TagLength(s, <<"F", "R">>) > 0
    \/ TagLength(s, <<"N", "F", "R">>) > 0

\* length of the match of /^[A-Z]+-\d+/ at the start of s, 0 when none
UpperTagLength(s) ==
    LET u == RunLength(s, IsUpper)
    IN  IF u >= 1 /\ Len(s) > u /\ s[u + 1] = "-"
        THEN LET d == RunLength(DropFirst(s, u + 1), IsDigit)
             IN  IF d = 0 THEN 0 ELSE u + 1 + d
        ELSE 0

\* mutant: the tag pattern /^[A-Z]{3}-\d+/, which FR-<digits> does not match
MatchUpperTagThreeLetters(s) ==
    IF UpperTagLength(s) = 0 \/ RunLength(s, IsUpper) # 3
    THEN <<>> ELSE <<SubSeq(s, 1, UpperTagLength(s))>>

\* s.match(/^[A-Z]+-\d+/): <<>> for null, else <<the match>>
MatchUpperTag(s) ==
    IF UpperTagLength(s) = 0 THEN <<>> ELSE <<SubSeq(s, 1, UpperTagLength(s))>>

\* s.replace(/^[A-Z]+-\d+:?\s*/, '')
StripUpperTag(s) ==
    LET t == UpperTagLength(s)
    IN  IF t = 0 THEN s
        ELSE LET afterTag == DropFirst(s, t)
                 afterColon == IF afterTag # <<>> /\ afterTag[1] = ":"
                               THEN Tail(afterTag) ELSE afterTag
             IN  DropFirst(afterColon, RunLength(afterColon, IsSpace))

\* -------------------------------------------------------------------------
\* Line classification and formatting (pure functions of the source)
\* -------------------------------------------------------------------------

\* mutant: line.split('|').length > 1, one '|' is enough
isTableRowOnePipe(line) == Includes(line, <<"|">>) /\ Len(Split(line, "|")) > 1

\* const isTableRow = line.includes('|') && line.split('|').length > 2
isTableRow(line) == Includes(line, <<"|">>) /\ Len(Split(line, "|")) > 2

\* mutant: line.split('|').filter(cell => cell), the cells not trimmed
TableCellsUntrimmed(line) ==
    LET NonEmpty(cell) == cell # <<>>
    IN  SelectSeq(Split(line, "|"), NonEmpty)

\* line.split('|').map(cell => cell.trim()).filter(cell => cell)
TableCells(line) ==
    LET parts == Split(line, "|")
        NonEmpty(cell) == cell # <<>>
    IN  SelectSeq([j \in 1..Len(parts) |-> Trim(parts[j])], NonEmpty)

\* line.includes('---')
IsSeparatorRow(line) == Includes(line, <<"-", "-", "-">>)

\* line.startsWith('##') || line.startsWith('**') || line === line.toUpperCase() && line.length > 5
IsSectionHeader(line) ==
    \/ StartsWith(line, <<"#", "#">>)
    \/ StartsWith(line, <<"*", "*">>)
    \/ (line = ToUpperCase(line) /\ Len(line) > 5)

\* line.startsWith('###') || (line.includes(':') && line.length < 100)
IsSubsectionHeader(line) ==
    \/ StartsWith(line, <<"#", "#", "#">>)
    \/ (Includes(line, <<":">>) /\ Len(line) < 100)

\* title: line.replace(/^#+\s*/, '').replace(/\*\*/g, '')
SectionTitle(line) == RemoveAllBoldMarkers(StripLeadingHashes(line))

\* title: line.replace(/^#+\s*/, '').replace(':', '')
SubsectionTitle(line) == RemoveFirstColon(StripLeadingHashes(line))

\* the keyword groups of getSectionType, in the order of its if statements
SectionTypeKeywords ==
    << [type |-> "requirements",
        words |-> {<<"r", "e", "q", "u", "i", "r", "e", "m", "e", "n", "t">>,
                   <<"f", "u", "n", "c", "t", "i", "o", "n", "a", "l">>}],
       [type |-> "security",
        words |-> {<<"s", "e", "c", "u", "r", "i", "t", "y">>,
                   <<"a", "u", "t", "h", "e", "n", "t", "i", "c", "a", "t", "i", "o", "n">>}],
       [type |-> "performance",
        words |-> {<<"p", "e", "r", "f", "o", "r", "m", "a", "n", "c", "e">>,
                   <<"s", "c", "a", "l", "a", "b", "i", "l", "i", "t", "y">>}],
       [type |-> "interface",
        words |-> {<<"i", "n", "t", "e", "r", "f", "a", "c", "e">>,
                   <<"u", "i">>,
                   <<"u", "s", "e", "r">>}],
       [type |-> "data",
        words |-> {<<"d", "a", "t", "a">>,
                   <<"d", "a", "t", "a", "b", "a", "s", "e">>}],
       [type |-> "integration",
        words |-> {<<"i", "n", "t", "e", "g", "r", "a", "t", "i", "o", "n">>,
                   <<"a", "p", "i">>}],
       [type |-> "assumptions",
        words |-> {<<"a", "s", "s", "u", "m", "p", "t", "i", "o", "n">>,
                   <<"c", "o", "n", "s", "t", "r", "a", "i", "n", "t">>}] >>

\* mutant: the tests assign without returning, so the last match wins
LastMatchingType(groups, line) ==
    LET lowerLine == ToLowerCase(line)
        hits == {g \in DOMAIN groups : \E w \in groups[g].words : Includes(lowerLine, w)}
    IN  IF hits = {} THEN "general" ELSE groups[MaxOf(hits)].type

\* the first group (in the given order) one of whose words occurs in the
\* lower-cased line; 'general' when none does
FirstMatchingType(groups, line) ==
    LET lowerLine == ToLowerCase(line)
        hits == {g \in DOMAIN groups : \E w \in groups[g].words : Includes(lowerLine, w)}
    IN  IF hits = {} THEN "general" ELSE groups[MinOf(hits)].type

\* mutant: the security test moved before the requirements test
getSectionTypeSecurityFirst(line) ==
    FirstMatchingType(<<SectionTypeKeywords[2], SectionTypeKeywords[1]>>
                          \o SubSeq(SectionTypeKeywords, 3, Len(SectionTypeKeywords)),
                      line)

getSectionType(line) == FirstMatchingType(SectionTypeKeywords, line)

\* the value a throwing expression yields in place of a result
Threw == [threw |-> TRUE]

\* EditableTRDFormatter.formatLine
formatLineEditable(line) ==
    IF TestNumbered(line) THEN [type |-> "numbered-list", content |-> line]
    ELSE IF StartsWith(line, <<"-", " ">>) \/ StartsWith(line, <<"*", " ">>)
         THEN [type |-> "bullet-list", content |-> line]
    ELSE IF StartsWith(line, <<Backtick, Backtick, Backtick>>) THEN [type |-> "code-block", content |-> line]
    ELSE IF Includes(line, <<"*", "*">>) /\ Includes(line, <<"*", "*">>)
         THEN [type |-> "bold-text", content |-> line]
    ELSE [type |-> "text", content |-> line]

\* ProfessionalTRDFormatter.formatLine; match(...)[0] throws when match is null
formatLineProfessional(line) ==
    IF TestNumbered(line)
    THEN IF MatchLeadingDigits(line) = <<>> THEN Threw
         ELSE [type |-> "numbered", content |-> StripNumber(line),
               number |-> MatchLeadingDigits(line)[1]]
    ELSE IF StartsWith(line, <<"-", " ">>) \/ StartsWith(line, <<"*", " ">>)
         THEN [type |-> "bullet", content |-> StripBullet(line)]
    ELSE IF TestRequirement(line)
         THEN IF MatchUpperTag(line) = <<>> THEN Threw
              ELSE [type |-> "requirement", id |-> MatchUpperTag(line)[1],
                    content |-> StripUpperTag(line)]
    ELSE [type |-> "text", content |-> line]

formatLine(fmt, line) ==
    IF fmt = "Editable" THEN formatLineEditable(line) ELSE formatLineProfessional(line)

\* renderTable: the raw lines when there are no headers, else a table
renderTable(tableData) ==
    IF Len(tableData.headers) = 0 THEN "raw-lines" ELSE "html-table"

\* -------------------------------------------------------------------------
\* Input documents
\* -------------------------------------------------------------------------

\* '## Security Requirements'
LineSecurityRequirements ==
    <<"#", "#", " ", "S", "e", "c", "u", "r", "i", "t", "y", " ", "R", "e", "q", "u", "i", "r", "e", "m", "e", "n", "t", "s">>

\* '## Misc Notes'
LineMiscNotes ==
    <<"#", "#", " ", "M", "i", "s", "c", " ", "N", "o", "t", "e", "s">>

\* '## Security Overview'
LineSecurityOverview ==
    <<"#", "#", " ", "S", "e", "c", "u", "r", "i", "t", "y", " ", "O", "v", "e", "r", "v", "i", "e", "w">>

\* '## Metrics'
LineMetrics ==
    <<"#", "#", " ", "M", "e", "t", "r", "i", "c", "s">>

\* '### Details'
LineDetails ==
    <<"#", "#", "#", " ", "D", "e", "t", "a", "i", "l", "s">>

\* '**Data Model**'
LineBoldDataModel ==
    <<"*", "*", "D", "a", "t", "a", " ", "M", "o", "d", "e", "l", "*", "*">>

\* 'OVERVIEW'
LineOVERVIEW ==
    <<"O", "V", "E", "R", "V", "I", "E", "W">>

\* 'NOTES'
LineNOTES ==
    <<"N", "O", "T", "E", "S">>

\* 'REQ-42: Must support SSO'
LineReq42 ==
    <<"R", "E", "Q", "-", "4", "2", ":", " ", "M", "u", "s", "t", " ", "s", "u", "p", "p", "o", "r", "t", " ", "S", "S", "O">>

\* 'REQ-7 must log'
LineReq7 ==
    <<"R", "E", "Q", "-", "7", " ", "m", "u", "s", "t", " ", "l", "o", "g">>

\* 'FR-12'
LineFR12 ==
    <<"F", "R", "-", "1", "2">>

\* 'NFR-3 fast'
LineNFR3 ==
    <<"N", "F", "R", "-", "3", " ", "f", "a", "s", "t">>

\* '- item'
LineBullet ==
    <<"-", " ", "i", "t", "e", "m">>

\* '* item'
LineStar ==
    <<"*", " ", "i", "t", "e", "m">>

\* '12. first'
LineNumbered ==
    <<"1", "2", ".", " ", "f", "i", "r", "s", "t">>

\* 'U+0060U+0060U+0060js'
LineFence ==
    <<Backtick, Backtick, Backtick, "j", "s">>

\* 'some **bold** text'
LineInlineBold ==
    <<"s", "o", "m", "e", " ", "*", "*", "b", "o", "l", "d", "*", "*", " ", "t", "e", "x", "t">>

\* 'plain text'
LinePlain ==
    <<"p", "l", "a", "i", "n", " ", "t", "e", "x", "t">>

\* '  more text '
LineIndented ==
    <<" ", " ", "m", "o", "r", "e", " ", "t", "e", "x", "t", " ">>

\* 'Scope: core'
LineScope ==
    <<"S", "c", "o", "p", "e", ":", " ", "c", "o", "r", "e">>

\* ''
LineBlank ==
    <<>>

\* '  '
LineSpaces ==
    <<" ", " ">>

\* 'a | b'
LineOnePipe ==
    <<"a", " ", "|", " ", "b">>

\* '| Name | Value |'
LineTableHeader ==
    <<"|", " ", "N", "a", "m", "e", " ", "|", " ", "V", "a", "l", "u", "e", " ", "|">>

\* '|------|-------|'
LineTableSeparator ==
    <<"|", "-", "-", "-", "-", "-", "-", "|", "-", "-", "-", "-", "-", "-", "-", "|">>

\* '| Latency | 200ms |'
LineLatency ==
    <<"|", " ", "L", "a", "t", "e", "n", "c", "y", " ", "|", " ", "2", "0", "0", "m", "s", " ", "|">>

\* '| Throughput | 500rps |'
LineThroughput ==
    <<"|", " ", "T", "h", "r", "o", "u", "g", "h", "p", "u", "t", " ", "|", " ", "5", "0", "0", "r", "p", "s", " ", "|">>

\* '| a | b | c |'
LineThreeCells ==
    <<"|", " ", "a", " ", "|", " ", "b", " ", "|", " ", "c", " ", "|">>

\* '| |'
LineEmptyCells ==
    <<"|", " ", "|">>

\* '- key: value'
LineBulletColon ==
    <<"-", " ", "k", "e", "y", ":", " ", "v", "a", "l", "u", "e">>

\* '1. step: go'
LineNumberedColon ==
    <<"1", ".", " ", "s", "t", "e", "p", ":", " ", "g", "o">>

\* '## A | B |'
LineHeaderRow ==
    <<"#", "#", " ", "A", " ", "|", " ", "B", " ", "|">>

\* '| a---b | c |'
LineDataDashes ==
    <<"|", " ", "a", "-", "-", "-", "b", " ", "|", " ", "c", " ", "|">>

\* '## Functional Security'
LineFunctionalSecurity ==
    <<"#", "#", " ", "F", "u", "n", "c", "t", "i", "o", "n", "a", "l", " ", "S", "e", "c", "u", "r", "i", "t", "y">>

\* '## User Authentication'
LineUserAuthentication ==
    <<"#", "#", " ", "U", "s", "e", "r", " ", "A", "u", "t", "h", "e", "n", "t", "i", "c", "a", "t", "i", "o", "n">>

\* '## API Performance'
LineApiPerformance ==
    <<"#", "#", " ", "A", "P", "I", " ", "P", "e", "r", "f", "o", "r", "m", "a", "n", "c", "e">>

\* '## User Data'
LineUserData ==
    <<"#", "#", " ", "U", "s", "e", "r", " ", "D", "a", "t", "a">>

\* '## Database API'
LineDatabaseApi ==
    <<"#", "#", " ", "D", "a", "t", "a", "b", "a", "s", "e", " ", "A", "P", "I">>

\* '## API Constraints'
LineApiConstraints ==
    <<"#", "#", " ", "A", "P", "I", " ", "C", "o", "n", "s", "t", "r", "a", "i", "n", "t", "s">>

\* '## Assumptions'
LineAssumptions ==
    <<"#", "#", " ", "A", "s", "s", "u", "m", "p", "t", "i", "o", "n", "s">>

\* '## Build Notes'
LineBuildNotes ==
    <<"#", "#", " ", "B", "u", "i", "l", "d", " ", "N", "o", "t", "e", "s">>

\* 'AUTHENTICATION'
LineAUTHENTICATION ==
    <<"A", "U", "T", "H", "E", "N", "T", "I", "C", "A", "T", "I", "O", "N">>

\* '## Scalability'
LineScalability ==
    <<"#", "#", " ", "S", "c", "a", "l", "a", "b", "i", "l", "i", "t", "y">>

\* the lines whose every arrangement is parsed: a section header, a
\* subsection header, a content line, a table row, a separator row, a blank
DeepVocabulary ==
    {LineMiscNotes, LineScope, LineIndented, LineTableHeader, LineTableSeparator,
     LineSpaces}

\* one line of every kind the classifiers tell apart
WideVocabulary ==
    {LineSecurityRequirements, LineMiscNotes, LineSecurityOverview, LineDetails,
     LineBoldDataModel, LineOVERVIEW, LineNOTES, LineReq42, LineReq7, LineFR12,
     LineNFR3, LineBullet, LineNumbered, LineFence, LineInlineBold, LinePlain,
     LineScope, LineBlank, LineOnePipe, LineTableHeader, LineTableSeparator,
     LineLatency}

\* longest document over DeepVocabulary
DeepLen == 4

\* most lines of WideVocabulary in a document, alone or after a section header
WideLen == 1

DocumentsOver(vocabulary, maxLen) == UNION {[1..n -> vocabulary] : n \in 0..maxLen}

\* the documents of the specification's examples, and documents for the
\* lines outside the vocabularies
SampleDocuments ==
    { <<LineMetrics, LineTableHeader, LineTableSeparator, LineLatency, LineThroughput>>,
      <<LineScope, LineMiscNotes, LineScope, LineScope, LineMetrics, LineScope>>,
      <<LineMiscNotes, LineStar, LineScope, LinePlain, LineTableHeader, LineThroughput>>,
      <<LineMiscNotes, LineBulletColon, LineNumberedColon, LineReq42, LineHeaderRow,
        LinePlain>>,
      <<LineMiscNotes, LineScope, LineLatency, LineThroughput, LineScope, LineIndented>>,
      <<LineOVERVIEW, LineReq42, LineReq7>>,
      <<LineMiscNotes, LineEmptyCells, LineTableSeparator, LineEmptyCells>>,
      <<LineMiscNotes, LineDetails, LineScope>>,
      <<LineMiscNotes, LineScope, LineTableHeader, LineMetrics, LineScope, LinePlain>>,
      <<LineMiscNotes, LineThreeCells, LineEmptyCells, LineOnePipe>>,
      <<LineMiscNotes, LineEmptyCells, LineTableHeader, LineDataDashes, LineLatency>>,
      <<LineMetrics, LineTableHeader, LineLatency, LineSpaces, LineTableHeader,
        LineThroughput>>,
      <<LineMetrics, LineTableHeader, LineLatency, LinePlain, LineTableHeader,
        LineThroughput>>,
      <<LineFunctionalSecurity, LineUserAuthentication, LineApiPerformance, LineUserData,
        LineScalability>>,
      <<LineDatabaseApi, LineApiConstraints, LineAssumptions, LineBuildNotes,
        LineAUTHENTICATION>> }

\* JavaScript values a caller passes as content
NullValue == [kind |-> "null", chars |-> <<>>]

UndefinedValue == [kind |-> "undefined", chars |-> <<>>]

StringValue(chars) == [kind |-> "string", chars |-> chars]

\* !content
Falsy(v) == v.kind \in {"null", "undefined"} \/ v.chars = <<>>

Contents ==
    {StringValue(Join(d, "\n")) :
        d \in DocumentsOver(DeepVocabulary, DeepLen)
              \cup DocumentsOver(WideVocabulary, WideLen)
              \cup {<<LineMiscNotes>> \o w : w \in DocumentsOver(WideVocabulary, WideLen)}
              \cup SampleDocuments}
    \cup {NullValue, UndefinedValue}

Formatters == {"Editable", "Professional"}

\* -------------------------------------------------------------------------
\* State: the component, the call of parseContent and its local variables
\* -------------------------------------------------------------------------

VARIABLES
    formatter,          \* which component runs: its formatLine differs
    content,            \* the argument of parseContent
    pc,                 \* "idle", "loop" (inside the for loop), "done", "threw"
    lines,              \* content.split('\n')
    i,                  \* the loop index: the number of lines consumed
    sections,           \* the array returned at the end
    currentSection,     \* Null or the section object being filled
    currentSubsection,  \* 0 (null) or the address of a subsection object
    sectionCounter,
    subsectionCounter,
    currentTable,       \* Null or the table object being filled
    heap,               \* the subsection objects, by address
    result,             \* the value the last call returned
    firstParse,         \* history: the first completed call, <<>> before it
    editor,             \* EditableTRDFormatter: its props and React state
    saves,              \* the handleSave calls made so far, in call order
    expandedSections,   \* the expandedSections state of the formatter
    commentsView,       \* RealTimeComments: documentId, comments, isLoading
    loads               \* the loadComments calls made so far, in call order

locals == <<lines, i, sections, currentSection, currentSubsection, sectionCounter,
            subsectionCounter, currentTable, heap>>

\* the React state outside parseContent
reactState == <<editor, saves, expandedSections, commentsView, loads>>

vars == <<formatter, content, pc, locals, result, firstParse, reactState>>

\* null for an object reference
Null == [null |-> TRUE]

\* sections with every subsection address replaced by the object it names
Tree(secs, h) ==
    [k \in 1..Len(secs) |->
        [secs[k] EXCEPT !.subsections =
            [j \in 1..Len(secs[k].subsections) |-> h[secs[k].subsections[j]]]]]

\* the texts the content prop and the textarea take
InitialText == "TRD draft"

Texts == {InitialText, "TRD draft, reviewed", "TRD draft, reviewed and signed"}

\* the useState initial values of EditableTRDFormatter for a content prop
EditorState(c) ==
    [content |-> c,
     onSave |-> TRUE,
     activeTab |-> "formatted",
     isEditing |-> FALSE,
     editedContent |-> c,
     originalContent |-> c,
     hasChanges |-> FALSE,
     saveStatus |-> Null]

\* documentId of RealTimeComments before the component is mounted
Unmounted == "unmounted"

Init ==
    /\ formatter \in Formatters
    /\ content = UndefinedValue
    /\ pc = "idle"
    /\ lines = <<>>
    /\ i = 0
    /\ sections = <<>>
    /\ currentSection = Null
    /\ currentSubsection = 0
    /\ sectionCounter = 0
    /\ subsectionCounter = 0
    /\ currentTable = Null
    /\ heap = <<>>
    /\ result = <<>>
    /\ firstParse = <<>>
    /\ editor = EditorState(InitialText)
    /\ saves = <<>>
    /\ expandedSections = <<>>
    /\ commentsView = [documentId |-> Unmounted, comments |-> <<>>, isLoading |-> FALSE]
    /\ loads = <<>>

\* -------------------------------------------------------------------------
\* parseContent
\* -------------------------------------------------------------------------

\* mutant: sectionCounter declared outside parseContent, set once and kept
\* from one call to the next
parseContentLocalsKeptCounter(c) ==
    /\ sections' = <<>>
    /\ lines' = Split(c.chars, "\n")
    /\ currentSection' = Null
    /\ currentSubsection' = 0
    /\ sectionCounter' = IF pc = "idle" THEN 1 ELSE sectionCounter
    /\ subsectionCounter' = 1
    /\ currentTable' = Null
    /\ heap' = <<>>
    /\ i' = 0

\* the declarations before the loop
parseContentLocals(c) ==
    /\ sections' = <<>>
    /\ lines' = Split(c.chars, "\n")
    /\ currentSection' = Null
    /\ currentSubsection' = 0
    /\ sectionCounter' = 1
    /\ subsectionCounter' = 1
    /\ currentTable' = Null
    /\ heap' = <<>>
    /\ i' = 0

\* mutant: if (content === null) return []
EarlyReturnOnNullOnly(c) == c.kind = "null"

\* if (!content) return []
EarlyReturn(c) == Falsy(c)

\* the call parseContent(c), up to the loop or to the early return
parseContentCall(c) ==
    /\ content' = c
    /\ IF EarlyReturn(c)
       THEN /\ pc' = "done"
            /\ result' = <<>>
            /\ UNCHANGED locals
       ELSE /\ pc' = "loop"
            /\ result' = <<>>
            /\ parseContentLocals(c)

\* the component renders and calls parseContent on its content
Render ==
    /\ pc = "idle"
    /\ \E c \in Contents : parseContentCall(c)
    /\ UNCHANGED <<formatter, reactState, firstParse>>

\* const line = lines[i].trim()
CurrentLine == Trim(lines[i + 1])

InLoop == pc = "loop" /\ i < Len(lines)

\* mutant: the blank test placed after the table test, so that a blank line
\* closes the open table
SkipBlankClosesTable ==
    /\ InLoop
    /\ CurrentLine = <<>>
    /\ i' = i + 1
    /\ currentTable' = Null
    /\ heap' = IF currentTable # Null /\ currentSubsection # 0
               THEN [heap EXCEPT ![currentSubsection].content = Append(@, currentTable)]
               ELSE heap
    /\ currentSection' =
           IF currentTable # Null /\ currentSubsection = 0 /\ currentSection # Null
           THEN [currentSection EXCEPT !.content = Append(@, currentTable)]
           ELSE currentSection
    /\ UNCHANGED <<formatter, reactState, content, pc, lines, sections, currentSubsection,
                   sectionCounter, subsectionCounter, result, firstParse>>

\* if (!line) continue
SkipBlank ==
    /\ InLoop
    /\ CurrentLine = <<>>
    /\ i' = i + 1
    /\ UNCHANGED <<formatter, reactState, content, pc, lines, sections, currentSection,
                   currentSubsection, sectionCounter, subsectionCounter,
                   currentTable, heap, result, firstParse>>

NewTable == [type |-> "table", headers |-> <<>>, rows |-> <<>>, rawContent |-> <<>>]

\* mutant: the header test without the separator test, so that a separator
\* row read first becomes the header row
TableAfterRowSeparatorIsHeader(table, line) ==
    LET started == IF table = Null THEN NewTable ELSE table
        withRaw == [started EXCEPT !.rawContent = Append(@, line)]
    IN  IF Len(withRaw.headers) = 0
        THEN [withRaw EXCEPT !.headers = TableCells(line)]
        ELSE IF IsSeparatorRow(line)
        THEN withRaw
        ELSE [withRaw EXCEPT !.rows = Append(@, TableCells(line))]

\* mutant: the header row told by its position, rawContent.length === 1
TableAfterRowFirstRowHeader(table, line) ==
    LET started == IF table = Null THEN NewTable ELSE table
        withRaw == [started EXCEPT !.rawContent = Append(@, line)]
    IN  IF IsSeparatorRow(line) \/ Len(withRaw.rawContent) = 1
        THEN IF IsSeparatorRow(line)
             THEN withRaw
             ELSE [withRaw EXCEPT !.headers = TableCells(line)]
        ELSE [withRaw EXCEPT !.rows = Append(@, TableCells(line))]

\* the table after the row: the separator is skipped, the first other row is
\* the header row, the rest are data rows
TableAfterRow(table, line) ==
    LET started == IF table = Null THEN NewTable ELSE table
        withRaw == [started EXCEPT !.rawContent = Append(@, line)]
    IN  IF IsSeparatorRow(line) \/ Len(withRaw.headers) = 0
        THEN IF IsSeparatorRow(line)
             THEN withRaw
             ELSE [withRaw EXCEPT !.headers = TableCells(line)]
        ELSE [withRaw EXCEPT !.rows = Append(@, TableCells(line))]

\* if (isTableRow) { ... continue }
TableRow ==
    /\ InLoop
    /\ CurrentLine # <<>>
    /\ isTableRow(CurrentLine)
    /\ currentTable' = TableAfterRow(currentTable, CurrentLine)
    /\ i' = i + 1
    /\ UNCHANGED <<formatter, reactState, content, pc, lines, sections, currentSection,
                   currentSubsection, sectionCounter, subsectionCounter, heap,
                   result, firstParse>>

\* mutant: the second push without its else, so that an item of an open
\* subsection is pushed to the section as well
PushItemToBoth(h, sec, sub, item) ==
    [heap |-> IF sub # 0 THEN [h EXCEPT ![sub].content = Append(@, item)] ELSE h,
     section |-> IF sec # Null THEN [sec EXCEPT !.content = Append(@, item)] ELSE sec]

\* mutant: the two tests in the other order, the section tried first
PushItemSectionFirst(h, sec, sub, item) ==
    IF sec # Null
    THEN [heap |-> h, section |-> [sec EXCEPT !.content = Append(@, item)]]
    ELSE IF sub # 0
    THEN [heap |-> [h EXCEPT ![sub].content = Append(@, item)], section |-> sec]
    ELSE [heap |-> h, section |-> sec]

\* if (currentSubsection) currentSubsection.content.push(item)
\* else if (currentSection) currentSection.content.push(item)
\* on the objects h (the subsections) and sec (the current section)
PushItem(h, sec, sub, item) ==
    IF sub # 0
    THEN [heap |-> [h EXCEPT ![sub].content = Append(@, item)], section |-> sec]
    ELSE IF sec # Null
    THEN [heap |-> h, section |-> [sec EXCEPT !.content = Append(@, item)]]
    ELSE [heap |-> h, section |-> sec]

\* mutant: the closed table pushed to the section even when a subsection is open
AfterTableCloseIntoSection ==
    IF currentTable # Null
    THEN PushItem(heap, currentSection, 0, currentTable)
    ELSE [heap |-> heap, section |-> currentSection]

\* else if (currentTable) { push it; currentTable = null }: the objects after it
AfterTableClose ==
    IF currentTable # Null
    THEN PushItem(heap, currentSection, currentSubsection, currentTable)
    ELSE [heap |-> heap, section |-> currentSection]

NewSection(line, number) ==
    [id |-> <<"s", "e", "c", "t", "i", "o", "n", "-">> \o NumberToString(number),
     title |-> SectionTitle(line),
     type |-> getSectionType(line),
     number |-> number,
     content |-> <<>>,
     subsections |-> <<>>]

\* mutant: sectionCounter++ outside the if, also for the first section
SectionCounterAlwaysIncremented(open, counter) == counter + 1

\* mutant: subsectionCounter is not reset by a new section
SubsectionCounterNotReset(open, counter) == counter

\* if (currentSection) { ...; sectionCounter++; ... }
SectionCounterAfterHeader(open, counter) == IF open THEN counter + 1 ELSE counter

\* if (currentSection) { ...; subsectionCounter = 1 }
SubsectionCounterAfterHeader(open, counter) == IF open THEN 1 ELSE counter

\* mutant: the section header branch without currentSubsection = null
SubsectionCursorKept(sub) == sub

\* currentSubsection = null
SubsectionCursorAfterHeader(sub) == 0

\* the section header branch
SectionHeader ==
    /\ InLoop
    /\ CurrentLine # <<>>
    /\ ~isTableRow(CurrentLine)
    /\ IsSectionHeader(CurrentLine)
    /\ LET closed == AfterTableClose
       IN  /\ sections' = IF closed.section # Null
                          THEN Append(sections, closed.section)
                          ELSE sections
           /\ sectionCounter' = SectionCounterAfterHeader(closed.section # Null, sectionCounter)
           /\ subsectionCounter' =
                  SubsectionCounterAfterHeader(closed.section # Null, subsectionCounter)
           /\ currentSection' = NewSection(CurrentLine, sectionCounter')
           /\ currentSubsection' = SubsectionCursorAfterHeader(currentSubsection)
           /\ heap' = closed.heap
    /\ currentTable' = Null
    /\ i' = i + 1
    /\ UNCHANGED <<formatter, reactState, content, pc, lines, result, firstParse>>

NewSubsection(line, sectionNumber, subNumber) ==
    [id |-> <<"s", "u", "b", "s", "e", "c", "t", "i", "o", "n", "-">>
            \o NumberToString(sectionNumber) \o <<"-">> \o NumberToString(subNumber),
     title |-> SubsectionTitle(line),
     number |-> NumberToString(sectionNumber) \o <<".">> \o NumberToString(subNumber),
     content |-> <<>>]

\* mutant: an open subsection object is filled in again for the next
\* subsection header, in place of a new object
SubsectionHeaderReusesObject ==
    /\ InLoop
    /\ CurrentLine # <<>>
    /\ ~isTableRow(CurrentLine)
    /\ ~IsSectionHeader(CurrentLine)
    /\ IsSubsectionHeader(CurrentLine)
    /\ LET closed == AfterTableClose
           fresh == NewSubsection(CurrentLine, sectionCounter, subsectionCounter)
       IN  IF closed.section # Null
           THEN /\ heap' = IF currentSubsection # 0
                           THEN [closed.heap EXCEPT ![currentSubsection] = fresh]
                           ELSE Append(closed.heap, fresh)
                /\ currentSubsection' = IF currentSubsection # 0 THEN currentSubsection
                                        ELSE Len(closed.heap) + 1
                /\ currentSection' =
                       [closed.section EXCEPT !.subsections = Append(@, currentSubsection')]
                /\ subsectionCounter' = subsectionCounter + 1
           ELSE /\ heap' = closed.heap
                /\ currentSection' = closed.section
                /\ UNCHANGED <<currentSubsection, subsectionCounter>>
    /\ currentTable' = Null
    /\ i' = i + 1
    /\ UNCHANGED <<formatter, reactState, content, pc, lines, sections, sectionCounter, result,
                   firstParse>>

\* mutant: subsectionCounter++ outside if (currentSection)
SubsectionHeaderCountsOrphans ==
    /\ InLoop
    /\ CurrentLine # <<>>
    /\ ~isTableRow(CurrentLine)
    /\ ~IsSectionHeader(CurrentLine)
    /\ IsSubsectionHeader(CurrentLine)
    /\ LET closed == AfterTableClose
       IN  IF closed.section # Null
           THEN /\ heap' = Append(closed.heap,
                                  NewSubsection(CurrentLine, sectionCounter, subsectionCounter))
                /\ currentSubsection' = Len(closed.heap) + 1
                /\ currentSection' =
                       [closed.section EXCEPT !.subsections = Append(@, Len(closed.heap) + 1)]
           ELSE /\ heap' = closed.heap
                /\ currentSection' = closed.section
                /\ UNCHANGED currentSubsection
    /\ subsectionCounter' = subsectionCounter + 1
    /\ currentTable' = Null
    /\ i' = i + 1
    /\ UNCHANGED <<formatter, reactState, content, pc, lines, sections, sectionCounter, result,
                   firstParse>>

\* the subsection header branch
SubsectionHeader ==
    /\ InLoop
    /\ CurrentLine # <<>>
    /\ ~isTableRow(CurrentLine)
    /\ ~IsSectionHeader(CurrentLine)
    /\ IsSubsectionHeader(CurrentLine)
    /\ LET closed == AfterTableClose
       IN  IF closed.section # Null
           THEN /\ heap' = Append(closed.heap,
                                  NewSubsection(CurrentLine, sectionCounter, subsectionCounter))
                /\ currentSubsection' = Len(closed.heap) + 1
                /\ currentSection' =
                       [closed.section EXCEPT !.subsections = Append(@, Len(closed.heap) + 1)]
                /\ subsectionCounter' = subsectionCounter + 1
           ELSE /\ heap' = closed.heap
                /\ currentSection' = closed.section
                /\ UNCHANGED <<currentSubsection, subsectionCounter>>
    /\ currentTable' = Null
    /\ i' = i + 1
    /\ UNCHANGED <<formatter, reactState, content, pc, lines, sections, sectionCounter, result,
                   firstParse>>

\* mutant: the closed table is pushed but currentTable is not set to null
ContentLineKeepsTable ==
    /\ InLoop
    /\ CurrentLine # <<>>
    /\ ~isTableRow(CurrentLine)
    /\ ~IsSectionHeader(CurrentLine)
    /\ ~IsSubsectionHeader(CurrentLine)
    /\ LET closed == AfterTableClose
           formattedLine == formatLine(formatter, CurrentLine)
       IN  IF formattedLine = Threw
           THEN /\ pc' = "threw"
                /\ heap' = closed.heap
                /\ currentSection' = closed.section
                /\ UNCHANGED i
           ELSE LET pushed == PushItem(closed.heap, closed.section, currentSubsection,
                                       formattedLine)
                IN  /\ heap' = pushed.heap
                    /\ currentSection' = pushed.section
                    /\ i' = i + 1
                    /\ UNCHANGED pc
    /\ UNCHANGED <<formatter, reactState, content, lines, sections, currentSubsection,
                   sectionCounter, subsectionCounter, currentTable, result, firstParse>>

\* mutant: the content branch tried before the subsection header test
ContentLineBeforeSubsection ==
    /\ InLoop
    /\ CurrentLine # <<>>
    /\ ~isTableRow(CurrentLine)
    /\ ~IsSectionHeader(CurrentLine)
    /\ LET closed == AfterTableClose
           formattedLine == formatLine(formatter, CurrentLine)
       IN  IF formattedLine = Threw
           THEN /\ pc' = "threw"
                /\ heap' = closed.heap
                /\ currentSection' = closed.section
                /\ UNCHANGED i
           ELSE LET pushed == PushItem(closed.heap, closed.section, currentSubsection,
                                       formattedLine)
                IN  /\ heap' = pushed.heap
                    /\ currentSection' = pushed.section
                    /\ i' = i + 1
                    /\ UNCHANGED pc
    /\ currentTable' = Null
    /\ UNCHANGED <<formatter, reactState, content, lines, sections, currentSubsection,
                   sectionCounter, subsectionCounter, result, firstParse>>

\* mutant: the copy in ProfessionalTRDFormatter skips code fence lines
ContentLineProfessionalSkipsFences ==
    /\ InLoop
    /\ CurrentLine # <<>>
    /\ ~isTableRow(CurrentLine)
    /\ ~IsSectionHeader(CurrentLine)
    /\ ~IsSubsectionHeader(CurrentLine)
    /\ LET closed == AfterTableClose
           formattedLine == formatLine(formatter, CurrentLine)
       IN  IF formattedLine = Threw
           THEN /\ pc' = "threw"
                /\ heap' = closed.heap
                /\ currentSection' = closed.section
                /\ UNCHANGED i
           ELSE LET pushed == IF formatter = "Professional" /\ Head(CurrentLine) = Backtick
                              THEN [heap |-> closed.heap, section |-> closed.section]
                              ELSE PushItem(closed.heap, closed.section,
                                            currentSubsection, formattedLine)
                IN  /\ heap' = pushed.heap
                    /\ currentSection' = pushed.section
                    /\ i' = i + 1
                    /\ UNCHANGED pc
    /\ currentTable' = Null
    /\ UNCHANGED <<formatter, reactState, content, lines, sections, currentSubsection,
                   sectionCounter, subsectionCounter, result, firstParse>>

\* the content branch; an exception of formatLine ends the call
ContentLine ==
    /\ InLoop
    /\ CurrentLine # <<>>
    /\ ~isTableRow(CurrentLine)
    /\ ~IsSectionHeader(CurrentLine)
    /\ ~IsSubsectionHeader(CurrentLine)
    /\ LET closed == AfterTableClose
           formattedLine == formatLine(formatter, CurrentLine)
       IN  IF formattedLine = Threw
           THEN /\ pc' = "threw"
                /\ heap' = closed.heap
                /\ currentSection' = closed.section
                /\ UNCHANGED i
           ELSE LET pushed == PushItem(closed.heap, closed.section, currentSubsection,
                                       formattedLine)
                IN  /\ heap' = pushed.heap
                    /\ currentSection' = pushed.section
                    /\ i' = i + 1
                    /\ UNCHANGED pc
    /\ currentTable' = Null
    /\ UNCHANGED <<formatter, reactState, content, lines, sections, currentSubsection,
                   sectionCounter, subsectionCounter, result, firstParse>>

\* mutant: the loop is left without the last table being pushed
ReturnWithoutTableFlush ==
    /\ pc = "loop"
    /\ i = Len(lines)
    /\ sections' = IF currentSection # Null
                   THEN Append(sections, currentSection)
                   ELSE sections
    /\ result' = Tree(sections', heap)
    /\ pc' = "done"
    /\ UNCHANGED <<formatter, reactState, content, lines, i, currentSection, currentSubsection,
                   sectionCounter, subsectionCounter, currentTable, heap>>

\* after the loop: the last table, the last section, return sections
Return ==
    /\ pc = "loop"
    /\ i = Len(lines)
    /\ LET closed == AfterTableClose
       IN  /\ heap' = closed.heap
           /\ currentSection' = closed.section
           /\ sections' = IF closed.section # Null
                          THEN Append(sections, closed.section)
                          ELSE sections
    /\ result' = Tree(sections', heap')
    /\ pc' = "done"
    /\ UNCHANGED <<formatter, reactState, content, lines, i, currentSubsection, sectionCounter,
                   subsectionCounter, currentTable>>

Finish == Return /\ UNCHANGED firstParse

Next ==
    \/ Render
    \/ SkipBlank
    \/ TableRow
    \/ SectionHeader
    \/ SubsectionHeader
    \/ ContentLine
    \/ Finish

Spec == Init /\ [][Next]_vars

\* -------------------------------------------------------------------------
\* Repeated calls: every render of the component calls parseContent again
\* -------------------------------------------------------------------------

RepeatVocabulary == {LineMiscNotes, LineScope, LineIndented, LineSpaces}

\* longest document over RepeatVocabulary given to a repeated call
RepeatLen == 2

\* documents with table rows, and the same with lines before the first
\* section header or with blank lines added
RepeatSamples ==
    {<<LineMiscNotes, LineLatency, LineThroughput>>,
     <<LineMiscNotes, LineLatency, LineSpaces, LineThroughput, LineSpaces>>,
     <<LineMiscNotes, LineIndented, LineScope>>,
     <<LineMiscNotes, LineSpaces, LineIndented, LineSpaces, LineScope>>,
     <<LineScope, LineLatency, LineMiscNotes, LineIndented>>,
     <<LineIndented, LineLatency, LineMiscNotes, LineLatency, LineThroughput>>,
     <<LineScope, LineMiscNotes, LineScope>>}

RepeatContents ==
    {StringValue(Join(d, "\n")) :
        d \in DocumentsOver(RepeatVocabulary, RepeatLen) \cup RepeatSamples}
    \cup {NullValue, UndefinedValue}

\* a render, the first or a later one
Rerender ==
    /\ pc \in {"idle", "done"}
    /\ \E c \in RepeatContents : parseContentCall(c)
    /\ firstParse' = IF firstParse # <<>> /\ content' # firstParse[1].input
                     THEN <<[firstParse[1] EXCEPT !.others = TRUE]>>
                     ELSE firstParse
    /\ UNCHANGED <<formatter, reactState>>

\* Return, with the first completed call written to the history: its input,
\* its result, and whether another input has been parsed since
FinishRecorded ==
    /\ Return
    /\ firstParse' = IF firstParse = <<>>
                     THEN <<[input |-> content, result |-> result', others |-> FALSE,
                             formatter |-> formatter]>>
                     ELSE firstParse

NextRepeat ==
    \/ Rerender
    \/ SkipBlank
    \/ TableRow
    \/ SectionHeader
    \/ SubsectionHeader
    \/ ContentLine
    \/ FinishRecorded

SpecRepeat == Init /\ [][NextRepeat]_vars

\* -------------------------------------------------------------------------
\* One document shown by both components: each calls its own parseContent
\* -------------------------------------------------------------------------

BothContents ==
    {StringValue(Join(d, "\n")) :
        d \in {<<LineMiscNotes>> \o w : w \in DocumentsOver(WideVocabulary, WideLen)}
              \cup SampleDocuments}

\* the first of the two components renders the document
RenderDocument ==
    /\ pc = "idle"
    /\ \E c \in BothContents : parseContentCall(c)
    /\ UNCHANGED <<formatter, reactState, firstParse>>

\* the other component renders the same document
RenderInOtherComponent ==
    /\ pc = "done"
    /\ firstParse # <<>>
    /\ formatter = firstParse[1].formatter
    /\ formatter' \in Formatters \ {formatter}
    /\ parseContentCall(content)
    /\ UNCHANGED <<firstParse, reactState>>

NextBoth ==
    \/ RenderDocument
    \/ RenderInOtherComponent
    \/ SkipBlank
    \/ TableRow
    \/ SectionHeader
    \/ SubsectionHeader
    \/ ContentLine
    \/ FinishRecorded

SpecBoth == Init /\ [][NextBoth]_vars

\* -------------------------------------------------------------------------
\* EditableTRDFormatter: editing and saving
\* -------------------------------------------------------------------------

\* most handleSave calls made in one behaviour
MaxSaves == 2

\* a saveStatus value; by is history, the number of the handleSave call that
\* set it
SaveStatus(type, k) == [type |-> type, by |-> k]

\* what the promise of onSave settles to: a result object with or without a
\* success property, no result, or a rejection
Outcomes ==
    {[kind |-> "resolved", result |-> [success |-> TRUE]],
     [kind |-> "resolved", result |-> [success |-> FALSE]],
     [kind |-> "resolved", result |-> [message |-> "saved"]],
     [kind |-> "resolved", result |-> UndefinedValue],
     [kind |-> "rejected"]}

\* useEffect(() => setHasChanges(editedContent !== originalContent),
\* [editedContent, originalContent]): run after a render in which one of the
\* two differs from the render before
CheckForChanges(before, after) ==
    IF after.editedContent # before.editedContent
         \/ after.originalContent # before.originalContent
    THEN [after EXCEPT !.hasChanges = (after.editedContent # after.originalContent)]
    ELSE after

\* useEffect(..., [content]): the content prop changes
ContentPropChanges ==
    /\ \E c \in Texts \ {editor.content} :
           editor' = CheckForChanges(editor,
                         [editor EXCEPT !.content = c,
                                        !.editedContent = c,
                                        !.originalContent = c,
                                        !.hasChanges = FALSE])
    /\ UNCHANGED <<formatter, content, pc, locals, result, firstParse, saves,
                   expandedSections, commentsView, loads>>

\* the parent renders the component with or without an onSave prop
OnSavePropChanges ==
    /\ editor' = [editor EXCEPT !.onSave = ~editor.onSave]
    /\ UNCHANGED <<formatter, content, pc, locals, result, firstParse, saves,
                   expandedSections, commentsView, loads>>

\* the Edit button, shown when not editing
handleEdit ==
    /\ ~editor.isEditing
    /\ editor' = [editor EXCEPT !.isEditing = TRUE, !.activeTab = "raw"]
    /\ UNCHANGED <<formatter, content, pc, locals, result, firstParse, saves,
                   expandedSections, commentsView, loads>>

\* the Cancel button, shown when editing
handleCancel ==
    /\ editor.isEditing
    /\ editor' = CheckForChanges(editor,
                     [editor EXCEPT !.isEditing = FALSE,
                                    !.editedContent = editor.originalContent,
                                    !.hasChanges = FALSE,
                                    !.activeTab = "formatted"])
    /\ UNCHANGED <<formatter, content, pc, locals, result, firstParse, saves,
                   expandedSections, commentsView, loads>>

\* typing in the textarea, shown on the raw tab when editing
handleContentChange ==
    /\ editor.isEditing
    /\ editor.activeTab = "raw"
    /\ \E value \in Texts \ {editor.editedContent} :
           editor' = CheckForChanges(editor, [editor EXCEPT !.editedContent = value])
    /\ UNCHANGED <<formatter, content, pc, locals, result, firstParse, saves,
                   expandedSections, commentsView, loads>>

\* the tab buttons
setActiveTab ==
    /\ \E tab \in {"formatted", "raw"} \ {editor.activeTab} :
           editor' = [editor EXCEPT !.activeTab = tab]
    /\ UNCHANGED <<formatter, content, pc, locals, result, firstParse, saves,
                   expandedSections, commentsView, loads>>

\* handleSave without onSave: the local save
handleSaveLocal(e, k) ==
    [e EXCEPT !.originalContent = e.editedContent,
              !.hasChanges = FALSE,
              !.isEditing = FALSE,
              !.activeTab = "formatted",
              !.saveStatus = SaveStatus("success", k)]

\* the Save button, shown when editing and enabled when hasChanges: the
\* local save with its 3 s timer, or the part of handleSave before the await
handleSave ==
    /\ editor.isEditing
    /\ editor.hasChanges
    /\ Len(saves) < MaxSaves
    /\ LET k == Len(saves) + 1
       IN  IF ~editor.onSave
           THEN /\ editor' = CheckForChanges(editor, handleSaveLocal(editor, k))
                /\ saves' = Append(saves, [phase |-> "timer",
                                           outcome |-> [kind |-> "local"]])
           ELSE /\ editor' = [editor EXCEPT !.saveStatus = SaveStatus("loading", k)]
                /\ saves' = Append(saves, [phase |-> "pending",
                                           content |-> editor.editedContent])
    /\ UNCHANGED <<formatter, content, pc, locals, result, firstParse,
                   expandedSections, commentsView, loads>>

\* reading result.success throws a TypeError
ReadThrows(outcome) == outcome.result \in {NullValue, UndefinedValue}

\* if (result.success)
ResultSuccess(outcome) ==
    IF "success" \in DOMAIN outcome.result THEN outcome.result.success ELSE FALSE

\* mutant: the result is read after the try block, so that a missing result
\* ends handleSave with the status still 'loading'
handleSaveAfterAwaitReadOutsideTry(e, submitted, outcome, k) ==
    IF outcome.kind = "rejected"
    THEN [e EXCEPT !.saveStatus = SaveStatus("error", k)]
    ELSE IF ReadThrows(outcome)
    THEN e
    ELSE IF ResultSuccess(outcome)
    THEN [e EXCEPT !.originalContent = submitted,
                   !.hasChanges = FALSE,
                   !.isEditing = FALSE,
                   !.activeTab = "formatted",
                   !.saveStatus = SaveStatus("success", k)]
    ELSE [e EXCEPT !.saveStatus = SaveStatus("error", k)]

\* handleSave after the await: submitted is the editedContent of the render
\* in which Save was pressed
handleSaveAfterAwait(e, submitted, outcome, k) ==
    IF outcome.kind = "rejected" \/ ReadThrows(outcome)
    THEN [e EXCEPT !.saveStatus = SaveStatus("error", k)]
    ELSE IF ResultSuccess(outcome)
    THEN [e EXCEPT !.originalContent = submitted,
                   !.hasChanges = FALSE,
                   !.isEditing = FALSE,
                   !.activeTab = "formatted",
                   !.saveStatus = SaveStatus("success", k)]
    ELSE [e EXCEPT !.saveStatus = SaveStatus("error", k)]

\* the promise of a pending onSave call settles; handleSave runs to its end
\* and starts the 5 s timer
SaveSettles ==
    /\ \E k \in DOMAIN saves :
           /\ saves[k].phase = "pending"
           /\ \E outcome \in Outcomes :
                  /\ editor' = CheckForChanges(editor,
                                   handleSaveAfterAwait(editor, saves[k].content, outcome, k))
                  /\ saves' = [saves EXCEPT ![k] = [phase |-> "timer",
                                                     outcome |-> outcome]]
    /\ UNCHANGED <<formatter, content, pc, locals, result, firstParse,
                   expandedSections, commentsView, loads>>

\* setTimeout(() => setSaveStatus(null), ...) of a handleSave call fires
ClearTimerFires ==
    /\ \E k \in DOMAIN saves :
           /\ saves[k].phase = "timer"
           /\ saves' = [saves EXCEPT ![k] = [phase |-> "fired"]]
    /\ editor' = [editor EXCEPT !.saveStatus = Null]
    /\ UNCHANGED <<formatter, content, pc, locals, result, firstParse,
                   expandedSections, commentsView, loads>>

NextEditor ==
    \/ ContentPropChanges
    \/ OnSavePropChanges
    \/ handleEdit
    \/ handleCancel
    \/ handleContentChange
    \/ setActiveTab
    \/ handleSave
    \/ SaveSettles
    \/ ClearTimerFires

\* the component is EditableTRDFormatter
InitEditor == Init /\ formatter = "Editable"

SpecEditor == InitEditor /\ [][NextEditor]_vars

\* -------------------------------------------------------------------------
\* Both formatters: expanding and collapsing sections
\* -------------------------------------------------------------------------

\* the ids of the sections shown
SectionIds == {"section-1", "section-2", "section-3", "section-4", "section-5"}

\* !prev[sectionId]: a missing property reads as undefined
NotPrev(prev, sectionId) ==
    IF sectionId \in DOMAIN prev THEN ~prev[sectionId] ELSE TRUE

\* const isExpanded = expandedSections[section.id] !== false
isExpanded(expanded, sectionId) ==
    ~(sectionId \in DOMAIN expanded /\ expanded[sectionId] = FALSE)

\* setExpandedSections(prev => ({...prev, [sectionId]: !prev[sectionId]}))
toggleSection ==
    /\ \E sectionId \in SectionIds :
           expandedSections' =
               [id \in DOMAIN expandedSections \cup {sectionId} |->
                   IF id = sectionId THEN NotPrev(expandedSections, sectionId)
                   ELSE expandedSections[id]]
    /\ UNCHANGED <<formatter, content, pc, locals, result, firstParse, editor, saves,
                   commentsView, loads>>

NextToggle == toggleSection

SpecToggle == Init /\ [][NextToggle]_vars

\* -------------------------------------------------------------------------
\* RealTimeComments: loading the comments of the document shown
\* -------------------------------------------------------------------------

\* most loadComments calls made in one behaviour
MaxLoads == 3

DocumentIds == {"doc-1", "doc-2", "doc-3"}

\* the comments the server holds for a document
CommentsOf(documentId) == <<[id |-> "comment-1", documentId |-> documentId]>>

\* how a fetch ends: response.ok, another status, or a network error
FetchOutcomes == {"ok", "not ok", "rejected"}

\* the argument of setComments for a fetch of documentId that ended with outcome
LoadedComments(documentId, outcome) ==
    IF outcome = "ok" THEN CommentsOf(documentId) ELSE <<>>

\* loadComments after the await: setComments, then finally setIsLoading(false)
AfterFetch(view, documentId, outcome) ==
    [view EXCEPT !.comments = LoadedComments(documentId, outcome),
                 !.isLoading = FALSE]

\* the component is mounted, or its documentId prop changes: the effect calls
\* loadComments, which sets isLoading and starts a fetch for that documentId
DocumentIdChanges ==
    /\ Len(loads) < MaxLoads
    /\ \E d \in DocumentIds \ {commentsView.documentId} :
           /\ commentsView' = [commentsView EXCEPT !.documentId = d, !.isLoading = TRUE]
           /\ loads' = Append(loads, [documentId |-> d, phase |-> "pending"])
    /\ UNCHANGED <<formatter, content, pc, locals, result, firstParse, editor, saves,
                   expandedSections>>

\* the fetch of a pending loadComments call settles
LoadSettles ==
    /\ \E k \in DOMAIN loads :
           /\ loads[k].phase = "pending"
           /\ \E outcome \in FetchOutcomes :
                  /\ commentsView' = AfterFetch(commentsView, loads[k].documentId, outcome)
                  /\ loads' = [loads EXCEPT ![k] = [documentId |-> loads[k].documentId,
                                                    phase |-> "settled",
                                                    outcome |-> outcome]]
    /\ UNCHANGED <<formatter, content, pc, locals, result, firstParse, editor, saves,
                   expandedSections>>

NextComments ==
    \/ DocumentIdChanges
    \/ LoadSettles

SpecComments == Init /\ [][NextComments]_vars

\* -------------------------------------------------------------------------
\* Claims
\* -------------------------------------------------------------------------

SectionFields == {"id", "title", "type", "number", "content", "subsections"}

\* one step of a running call: the next line is consumed and nothing is
\* re-read, or the loop is over and the call returns a list of sections
OnePassStep ==
    pc = "loop" =>
        /\ lines' = lines
        /\ \/ pc' = "loop" /\ i < Len(lines) /\ i' = i + 1
           \/ /\ pc' = "done" /\ i = Len(lines) /\ i' = i
              /\ \A k \in DOMAIN result' : DOMAIN result'[k] = SectionFields

\* inside the loop one branch of the loop body applies to the next line, and
\* after the last line the call returns: a running call is never stuck
LoopNeverStuck ==
    pc = "loop" =>
        /\ i <= Len(lines)
        /\ i < Len(lines) =>
               \/ CurrentLine = <<>>
               \/ isTableRow(CurrentLine)
               \/ IsSectionHeader(CurrentLine)
               \/ IsSubsectionHeader(CurrentLine)
               \/ formatLine(formatter, CurrentLine) # Threw

\* C1: a call of parseContent on a string makes one forward pass (each step
\* consumes exactly the next line, the index never goes back and never passes
\* the last line), never ends in an exception, and ends by returning a list
\* of sections.  With the variant Len(lines) - i this is termination.
C1_OnePassNoThrow ==
    /\ [](pc # "threw")
    /\ [](LoopNeverStuck)
    /\ [][OnePassStep]_vars

\* a returned call on a document that opens with a separator row, holds a
\* table row after text and a line no classifier matches
C1_Witness ==
    /\ pc = "done"
    /\ Len(lines) >= 3
    /\ i = Len(lines)
    /\ IsSeparatorRow(Trim(lines[1]))
    /\ \E k \in DOMAIN lines :
           /\ Trim(lines[k]) # <<>>
           /\ ~isTableRow(Trim(lines[k]))
           /\ ~IsSectionHeader(Trim(lines[k]))
           /\ ~IsSubsectionHeader(Trim(lines[k]))
    /\ result # <<>>

\* C2: called with the empty string, null or undefined, parseContent returns
\* the empty list at once: no local is set, no line is split off or read.
C2_EmptyInput ==
    [][(pc # "loop" /\ Falsy(content')) =>
          (pc' = "done" /\ result' = <<>> /\ UNCHANGED locals)]_vars

\* the call on the empty string has returned the empty list
C2_Witness ==
    /\ pc = "done"
    /\ content = StringValue(<<>>)
    /\ result = <<>>
    /\ lines = <<>>
    /\ i = 0

\* the locals as the declarations before the loop leave them
FreshLocals ==
    /\ sections = <<>>
    /\ currentSection = Null
    /\ currentSubsection = 0
    /\ sectionCounter = 1
    /\ subsectionCounter = 1
    /\ currentTable = Null
    /\ heap = <<>>

\* C3: every call starts from fresh locals (counters at 1, cursors empty),
\* whatever was parsed before, and a call on the input of the first completed
\* call returns the tree that call returned.
C3_Deterministic ==
    /\ (pc = "loop" /\ i = 0) => FreshLocals
    /\ (pc = "done" /\ firstParse # <<>> /\ content = firstParse[1].input)
           => result = firstParse[1].result

\* the first input parsed again after another input, with a section and a
\* subsection in the tree
C3_Witness ==
    /\ pc = "done"
    /\ firstParse # <<>>
    /\ firstParse[1].others
    /\ content = firstParse[1].input
    /\ result # <<>>
    /\ result[1].subsections # <<>>

TrimmedLines == [k \in DOMAIN lines |-> Trim(lines[k])]

\* a line the loop reads as a section header
IsSectionHeaderLine(line) == line # <<>> /\ ~isTableRow(line) /\ IsSectionHeader(line)

\* the section header lines of the input, in input order
SectionHeaderLines == SelectSeq(TrimmedLines, IsSectionHeaderLine)

DecimalDigit == <<"1", "2", "3", "4", "5", "6", "7", "8", "9">>

\* C4: the result holds one section per section header line, in input order;
\* the k-th has the title of the k-th header line, number k and id 'section-k'.
C4_SectionOrder ==
    (pc = "done" /\ ~Falsy(content)) =>
        /\ Len(result) = Len(SectionHeaderLines)
        /\ \A k \in DOMAIN result :
               /\ result[k].number = k
               /\ result[k].id = <<"s", "e", "c", "t", "i", "o", "n", "-", DecimalDigit[k]>>
               /\ result[k].title = SectionTitle(SectionHeaderLines[k])

\* three sections returned from a document that holds another line as well
C4_Witness ==
    /\ pc = "done"
    /\ Len(result) = 3
    /\ Len(lines) > 3
    /\ result[3].number = 3

\* C5: the j-th subsection of the k-th section has number 'k.j', so the
\* indices start at 1 in every section and grow by one.
C5_SubsectionNumbers ==
    pc = "done" =>
        \A k \in DOMAIN result :
            \A j \in DOMAIN result[k].subsections :
                result[k].subsections[j].number = <<DecimalDigit[k], ".", DecimalDigit[j]>>

\* a subsection-like line dropped before the first section, then subsections
\* 1.1 and 1.2 and, in the second section, 2.1
C5_Witness ==
    /\ pc = "done"
    /\ lines # <<>>
    /\ IsSubsectionHeader(Trim(lines[1]))
    /\ ~IsSectionHeader(Trim(lines[1]))
    /\ Len(result) = 2
    /\ Len(result[1].subsections) = 2
    /\ Len(result[2].subsections) = 1
    /\ result[2].subsections[1].number = <<"2", ".", "1">>

\* a line the loop reads as a subsection header
IsSubsectionHeaderLine(line) ==
    /\ line # <<>>
    /\ ~isTableRow(line)
    /\ ~IsSectionHeader(line)
    /\ IsSubsectionHeader(line)

\* a line the loop reads as content
IsContentLine(line) ==
    /\ line # <<>>
    /\ ~isTableRow(line)
    /\ ~IsSectionHeader(line)
    /\ ~IsSubsectionHeader(line)

\* the indices of the section header lines among the first n lines
SectionHeadersUpTo(n) == {p \in 1..n : IsSectionHeaderLine(TrimmedLines[p])}

\* the indices, among the first n lines, of the lines that open a container:
\* section headers, and subsection headers read while a section is open
OpeningLinesUpTo(n) ==
    {p \in 1..n :
        \/ IsSectionHeaderLine(TrimmedLines[p])
        \/ IsSubsectionHeaderLine(TrimmedLines[p]) /\ SectionHeadersUpTo(p - 1) # {}}

Last(seq) == seq[Len(seq)]

\* the cursors name the containers the most recent header lines opened
CursorsFollowHeaders ==
    pc = "loop" =>
        LET opening == OpeningLinesUpTo(i)
            headers == SectionHeadersUpTo(i)
        IN  /\ (currentSection = Null) <=> (headers = {})
            /\ currentSection # Null =>
                   currentSection.title = SectionTitle(TrimmedLines[MaxOf(headers)])
            /\ (currentSubsection # 0) <=>
                   (opening # {} /\ IsSubsectionHeaderLine(TrimmedLines[MaxOf(opening)]))
            /\ currentSubsection # 0 =>
                   /\ currentSection.subsections # <<>>
                   /\ Last(currentSection.subsections) = currentSubsection
                   /\ heap[currentSubsection].title =
                          SubsectionTitle(TrimmedLines[MaxOf(opening)])

\* a content line read while a section is open goes to the end of the open
\* subsection's content and leaves everything else alone, the parent's own
\* content included; with no open subsection it goes to the section's content
ContentGoesToOpenContainer ==
    (pc = "loop" /\ pc' = "loop" /\ i < Len(lines) /\ IsContentLine(CurrentLine)
        /\ currentSection # Null) =>
        LET item == formatLine(formatter, CurrentLine)
        IN  /\ sections' = sections
            /\ currentSubsection' = currentSubsection
            /\ IF currentSubsection # 0
               THEN /\ Len(heap'[currentSubsection].content)
                          > Len(heap[currentSubsection].content)
                    /\ Last(heap'[currentSubsection].content) = item
                    /\ currentSection' = currentSection
                    /\ \A a \in DOMAIN heap \ {currentSubsection} : heap'[a] = heap[a]
               ELSE /\ Len(currentSection'.content) > Len(currentSection.content)
                    /\ Last(currentSection'.content) = item
                    /\ heap' = heap

\* C6: a content line is appended to the container the most recent header
\* line opened: the open subsection if a subsection header came last (never
\* its parent's own content, never a subsection of an earlier section), else
\* the open section.
C6_ContentOwnership ==
    /\ [](CursorsFollowHeaders)
    /\ [][ContentGoesToOpenContainer]_vars

\* a content line has just been appended to a subsection of a later section
C6_Witness ==
    /\ pc = "loop"
    /\ i >= 1
    /\ IsContentLine(TrimmedLines[i])
    /\ sections # <<>>
    /\ currentSubsection # 0
    /\ heap[currentSubsection].content # <<>>
    /\ Last(heap[currentSubsection].content) = formatLine(formatter, TrimmedLines[i])
    /\ currentSection.content = <<>>

RECURSIVE ConcatAll(_)
ConcatAll(seqs) == IF seqs = <<>> THEN <<>> ELSE Head(seqs) \o ConcatAll(Tail(seqs))

\* the items of a section of a tree: its own content, then its subsections'
SectionItems(sec) ==
    sec.content \o ConcatAll([j \in DOMAIN sec.subsections |-> sec.subsections[j].content])

AllItems(tree) == ConcatAll([k \in DOMAIN tree |-> SectionItems(tree[k])])

\* what identifies an item in the input: a table by the lines of its rows,
\* a content item by its value
ItemKey(item) == IF item.type = "table" THEN [tableLines |-> item.rawContent] ELSE item

\* the keys of the items the lines from p on must give, in input order, when
\* a section is open or not and run holds the rows of the table being read
RECURSIVE ExpectedItemKeys(_, _, _, _)
ExpectedItemKeys(fmt, p, open, run) ==
    LET table == IF open /\ run # <<>> THEN <<[tableLines |-> run]>> ELSE <<>>
    IN  IF p > Len(lines) THEN table
        ELSE LET line == TrimmedLines[p]
             IN  IF line = <<>> THEN ExpectedItemKeys(fmt, p + 1, open, run)
                 ELSE IF isTableRow(line)
                      THEN ExpectedItemKeys(fmt, p + 1, open, Append(run, line))
                 ELSE IF IsSectionHeader(line)
                      THEN table \o ExpectedItemKeys(fmt, p + 1, TRUE, <<>>)
                 ELSE IF IsSubsectionHeader(line)
                      THEN table \o ExpectedItemKeys(fmt, p + 1, open, <<>>)
                 ELSE table \o (IF open THEN <<formatLine(fmt, line)>> ELSE <<>>)
                            \o ExpectedItemKeys(fmt, p + 1, open, <<>>)

\* C7: the content lists of the result, taken together, hold each content
\* line and each table read while a section is open exactly once (in input
\* order), and nothing else.
C7_EveryItemOnce ==
    (pc = "done" /\ ~Falsy(content)) =>
        LET items == AllItems(result)
        IN  [k \in DOMAIN items |-> ItemKey(items[k])]
                = ExpectedItemKeys(formatter, 1, FALSE, <<>>)

\* a result with an item in a section's own content and a table in one of
\* its subsections
C7_Witness ==
    /\ pc = "done"
    /\ \E k \in DOMAIN result :
           /\ result[k].content # <<>>
           /\ \E j \in DOMAIN result[k].subsections :
                  \E m \in DOMAIN result[k].subsections[j].content :
                      result[k].subsections[j].content[m].type = "table"

\* the cells of the rows the documents use, written out
ExpectedCells(line) ==
    CASE line = LineTableHeader ->
             << <<"N", "a", "m", "e">>, <<"V", "a", "l", "u", "e">> >>
      [] line = LineLatency ->
             << <<"L", "a", "t", "e", "n", "c", "y">>, <<"2", "0", "0", "m", "s">> >>
      [] line = LineThroughput ->
             << <<"T", "h", "r", "o", "u", "g", "h", "p", "u", "t">>,
                <<"5", "0", "0", "r", "p", "s">> >>

RowLines == {LineTableHeader, LineLatency, LineThroughput}

TableRowIndices == {p \in DOMAIN lines : isTableRow(TrimmedLines[p])}

\* the table rows of the document are one well-formed table inside a section:
\* consecutive lines a..b, a header row, a separator row, then data rows
OneWellFormedTable(a, b) ==
    /\ TableRowIndices = a..b
    /\ b >= a + 1
    /\ SectionHeadersUpTo(a - 1) # {}
    /\ TrimmedLines[a] \in RowLines
    /\ IsSeparatorRow(TrimmedLines[a + 1])
    /\ \A p \in (a + 2)..b : TrimmedLines[p] \in RowLines

\* C8: a well-formed table inside a section gives exactly one table item, in
\* that section, with the trimmed header cells as headers and the data rows,
\* each as its trimmed cells, as rows, in input order.
C8_WellFormedTable ==
    (pc = "done" /\ ~Falsy(content)) =>
        \A a, b \in DOMAIN lines :
            OneWellFormedTable(a, b) =>
                LET IsTable(item) == item.type = "table"
                    section == result[Cardinality(SectionHeadersUpTo(a))]
                    tables == SelectSeq(SectionItems(section), IsTable)
                IN  /\ Len(SelectSeq(AllItems(result), IsTable)) = 1
                    /\ Len(tables) = 1
                    /\ tables[1].headers = ExpectedCells(TrimmedLines[a])
                    /\ tables[1].rows =
                           [r \in 1..(b - a - 1) |-> ExpectedCells(TrimmedLines[a + 1 + r])]

\* the example of the specification: the Metrics table with two data rows
C8_Witness ==
    /\ pc = "done"
    /\ TrimmedLines = <<LineMetrics, LineTableHeader, LineTableSeparator, LineLatency,
                        LineThroughput>>
    /\ Len(result) = 1
    /\ result[1].title = <<"M", "e", "t", "r", "i", "c", "s">>
    /\ Len(result[1].content) = 1
    /\ result[1].content[1].headers =
           << <<"N", "a", "m", "e">>, <<"V", "a", "l", "u", "e">> >>
    /\ result[1].content[1].rows =
           << << <<"L", "a", "t", "e", "n", "c", "y">>, <<"2", "0", "0", "m", "s">> >>,
              << <<"T", "h", "r", "o", "u", "g", "h", "p", "u", "t">>,
                 <<"5", "0", "0", "r", "p", "s">> >> >>

\* the requirement items the requirement lines of the documents stand for
ExpectedRequirement(line) ==
    CASE line = LineReq42 ->
             [type |-> "requirement", id |-> <<"R", "E", "Q", "-", "4", "2">>,
              content |-> <<"M", "u", "s", "t", " ", "s", "u", "p", "p", "o", "r", "t",
                            " ", "S", "S", "O">>]
      [] line = LineReq7 ->
             [type |-> "requirement", id |-> <<"R", "E", "Q", "-", "7">>,
              content |-> <<"m", "u", "s", "t", " ", "l", "o", "g">>]
      [] line = LineFR12 ->
             [type |-> "requirement", id |-> <<"F", "R", "-", "1", "2">>,
              content |-> <<>>]
      [] line = LineNFR3 ->
             [type |-> "requirement", id |-> <<"N", "F", "R", "-", "3">>,
              content |-> <<"f", "a", "s", "t">>]

\* the content list of the open container
OpenContent ==
    IF currentSubsection # 0 THEN heap[currentSubsection].content
    ELSE currentSection.content

\* C9: a line that begins with REQ-<digits>, FR-<digits> or NFR-<digits>, read
\* while a section is open, is stored as a 'requirement' item with the tag
\* as id and the rest of the line as content ('REQ-42: Must support SSO' gives
\* id 'REQ-42' and content 'Must support SSO').  Stated of the formatter whose
\* formatLine has a requirement branch, ProfessionalTRDFormatter.
C9_RequirementTagged ==
    (pc = "loop" /\ i >= 1 /\ formatter = "Professional"
        /\ TestRequirement(TrimmedLines[i]) /\ SectionHeadersUpTo(i - 1) # {}) =>
        /\ OpenContent # <<>>
        /\ Last(OpenContent) = ExpectedRequirement(TrimmedLines[i])

\* C10 as stated: '## Security Requirements' is given type 'security' and
\* '## Misc Notes' type 'general'.
C10_SecurityRequirementsIsSecurity ==
    (pc = "loop" /\ i >= 1) =>
        /\ TrimmedLines[i] = LineSecurityRequirements => currentSection.type = "security"
        /\ TrimmedLines[i] = LineMiscNotes => currentSection.type = "general"

\* C10, amended: '## Security Requirements' is given type 'requirements' (the
\* requirements keywords are tried first and 'requirement' occurs in it),
\* '## Security Overview' type 'security' and '## Misc Notes' type 'general'.
C10_SectionTypeOfExamples ==
    (pc = "loop" /\ i >= 1) =>
        /\ TrimmedLines[i] = LineSecurityRequirements =>
               currentSection.type = "requirements"
        /\ TrimmedLines[i] = LineSecurityOverview => currentSection.type = "security"
        /\ TrimmedLines[i] = LineMiscNotes => currentSection.type = "general"

\* the header '## Security Requirements' has just opened a section
C10_Witness ==
    /\ pc = "loop"
    /\ i >= 1
    /\ TrimmedLines[i] = LineSecurityRequirements
    /\ currentSection.title = <<"S", "e", "c", "u", "r", "i", "t", "y", " ", "R", "e", "q",
                                "u", "i", "r", "e", "m", "e", "n", "t", "s">>
    /\ currentSection.type = "requirements"

IsNonBlank(line) == line # <<>>

\* the rows of the table that is open when the input ends: the table rows
\* after the last line that is neither blank nor a table row
TrailingRows ==
    LET closing == {p \in DOMAIN lines :
                       TrimmedLines[p] # <<>> /\ ~isTableRow(TrimmedLines[p])}
        start == IF closing = {} THEN 0 ELSE MaxOf(closing)
    IN  SelectSeq(SubSeq(TrimmedLines, start + 1, Len(lines)), IsNonBlank)

\* the content list, in the returned tree, of the container the last header
\* line of the input opened
LastOpenedContent ==
    LET opening == OpeningLinesUpTo(Len(lines))
        section == Last(result)
    IN  IF IsSubsectionHeaderLine(TrimmedLines[MaxOf(opening)])
        THEN Last(section.subsections).content
        ELSE section.content

\* C11: when the input ends while a table is open inside a section, the
\* returned tree holds that table as the last item of the open subsection,
\* or of the open section if no subsection is open; a lone header row gives a
\* table with that header and no rows.
C11_OpenTableFlushed ==
    (pc = "done" /\ ~Falsy(content) /\ TrailingRows # <<>>
        /\ SectionHeadersUpTo(Len(lines)) # {}) =>
        /\ Len(result) = Cardinality(SectionHeadersUpTo(Len(lines)))
        /\ LastOpenedContent # <<>>
        /\ LET table == Last(LastOpenedContent)
           IN  /\ table.type = "table"
               /\ table.rawContent = TrailingRows
               /\ (Len(TrailingRows) = 1 /\ ~IsSeparatorRow(TrailingRows[1])) =>
                      /\ table.headers = TableCells(TrailingRows[1])
                      /\ table.rows = <<>>
               /\ TrailingRows = <<LineTableHeader>> =>
                      table.headers = ExpectedCells(LineTableHeader)

\* the input ended on a lone header row inside an open subsection
C11_Witness ==
    /\ pc = "done"
    /\ TrailingRows = <<LineTableHeader>>
    /\ Len(result) = 1
    /\ Len(result[1].subsections) = 1
    /\ result[1].content = <<>>
    /\ Len(result[1].subsections[1].content) = 1
    /\ result[1].subsections[1].content[1].headers =
           << <<"N", "a", "m", "e">>, <<"V", "a", "l", "u", "e">> >>
    /\ result[1].subsections[1].content[1].rows = <<>>

\* the line read last was taken as a row of the open table
LastLineTakenAsTableRow ==
    /\ currentTable # Null
    /\ currentTable.rawContent # <<>>
    /\ Last(currentTable.rawContent) = TrimmedLines[i]

\* the number of '|' characters of a line
PipeCount(line) == Cardinality({p \in DOMAIN line : line[p] = "|"})

\* C12 as stated: a line is treated as a table row exactly when it contains
\* '|' and splitting it on '|' yields more than 2 non-empty trimmed cells.
C12_MoreThanTwoCells ==
    (pc = "loop" /\ i >= 1 /\ TrimmedLines[i] # <<>>) =>
        (LastLineTakenAsTableRow <=>
            (PipeCount(TrimmedLines[i]) >= 1 /\ Len(TableCells(TrimmedLines[i])) > 2))

\* C12, amended: a line is treated as a table row exactly when splitting it
\* on '|' yields more than 2 pieces, empty ones included, that is when it
\* holds at least two '|' characters, whatever the number of non-empty cells.
C12_AtLeastTwoPipes ==
    (pc = "loop" /\ i >= 1 /\ TrimmedLines[i] # <<>>) =>
        (LastLineTakenAsTableRow <=> PipeCount(TrimmedLines[i]) >= 2)

\* a row with no non-empty cell was added to the table, and a line with one
\* '|' after it was not
C12_Witness ==
    /\ pc = "loop"
    /\ i >= 3
    /\ TrimmedLines[i - 1] = LineEmptyCells
    /\ TrimmedLines[i] = LineOnePipe
    /\ currentTable = Null
    /\ currentSection # Null
    /\ Len(currentSection.content) = 2
    /\ currentSection.content[1].type = "table"
    /\ Len(currentSection.content[1].rawContent) = 2
    /\ currentSection.content[2].type = "text"

\* C13: a line starting with '###', read while a section is open, adds a
\* subsection to that section (numbered under it, titled by the line without
\* its '#') and opens no new top-level section.
C13_TripleHashOpensSubsection ==
    (pc = "loop" /\ i >= 2 /\ TrimmedLines[i] = LineDetails
        /\ SectionHeadersUpTo(i - 1) # {}) =>
        LET open == Cardinality({p \in 1..(i - 1) :
                        IsSectionHeaderLine(TrimmedLines[p])
                        /\ ~StartsWith(TrimmedLines[p], <<"#", "#", "#">>)})
        IN  /\ currentSection.number = open
            /\ currentSubsection # 0
            /\ heap[currentSubsection].title = <<"D", "e", "t", "a", "i", "l", "s">>
            /\ heap[currentSubsection].number[1] = DecimalDigit[open]

\* the number of items in the content lists of the open section and of the
\* subsections created so far
ItemCount ==
    (IF currentSection = Null THEN 0 ELSE Len(currentSection.content))
    + Len(ConcatAll([a \in DOMAIN heap |-> heap[a].content]))

\* the step on a non-blank line does what the first predicate the line
\* satisfies stands for, and nothing of what the later ones stand for
PriorityStep ==
    (pc = "loop" /\ pc' = "loop" /\ i < Len(lines) /\ CurrentLine # <<>>) =>
        LET line == CurrentLine
            closedTables == IF currentTable # Null /\ currentSection # Null THEN 1 ELSE 0
        IN  IF PipeCount(line) >= 2
            THEN /\ currentTable' # Null
                 /\ Last(currentTable'.rawContent) = line
                 /\ UNCHANGED <<sections, currentSection, currentSubsection, heap,
                                sectionCounter, subsectionCounter>>
            ELSE IF IsSectionHeader(line)
            THEN /\ currentTable' = Null
                 /\ currentSection'.title = SectionTitle(line)
                 /\ currentSection'.content = <<>>
                 /\ currentSection'.subsections = <<>>
                 /\ currentSubsection' = 0
                 /\ Len(heap') = Len(heap)
            ELSE IF IsSubsectionHeader(line)
            THEN /\ currentTable' = Null
                 /\ sections' = sections
                 /\ sectionCounter' = sectionCounter
                 /\ ItemCount' = ItemCount + closedTables
                 /\ IF currentSection # Null
                    THEN /\ Len(heap') = Len(heap) + 1
                         /\ currentSubsection' = Len(heap')
                         /\ heap'[currentSubsection'].title = SubsectionTitle(line)
                         /\ heap'[currentSubsection'].content = <<>>
                         /\ Last(currentSection'.subsections) = currentSubsection'
                    ELSE UNCHANGED <<currentSection, currentSubsection, heap,
                                     subsectionCounter>>
            ELSE /\ currentTable' = Null
                 /\ UNCHANGED <<sections, currentSubsection, sectionCounter,
                                subsectionCounter>>
                 /\ Len(heap') = Len(heap)
                 /\ IF currentSection # Null
                    THEN /\ ItemCount' = ItemCount + closedTables + 1
                         /\ Last(OpenContent') = formatLine(formatter, line)
                    ELSE UNCHANGED <<currentSection, heap>>

\* C14: a line is handled by the first of table row, section header,
\* subsection header, content item that it satisfies, and only by it: a
\* bullet, numbered or requirement line with ':' opens a subsection and adds
\* no item, a header-like table row goes to the table and opens nothing.
C14_FixedPriority == [][PriorityStep]_vars

\* bullet, numbered and requirement lines with ':' have opened subsections
\* 1.1 to 1.3 and stored no item, and the '##' line that is a table row has
\* been added to a table and has opened no section
C14_Witness ==
    /\ pc = "loop"
    /\ i = 5
    /\ TrimmedLines[2] = LineBulletColon
    /\ TrimmedLines[3] = LineNumberedColon
    /\ TrimmedLines[4] = LineReq42
    /\ TrimmedLines[5] = LineHeaderRow
    /\ sections = <<>>
    /\ currentSection.number = 1
    /\ Len(currentSection.subsections) = 3
    /\ ItemCount = 0
    /\ currentTable # Null
    /\ currentTable.rawContent = <<LineHeaderRow>>

\* word occurs in line when upper and lower case letters are not told apart
OccursIgnoringCase(word, line) ==
    \E offset \in 0..(Len(line) - Len(word)) :
        \A j \in DOMAIN word :
            \/ line[offset + j] = word[j]
            \/ <<line[offset + j]>> = ToUpperCase(<<word[j]>>)

\* the type the keyword groups give a header line, tried in the order
\* requirements, security, performance, interface, data, integration,
\* assumptions
KeywordType(line) ==
    LET Has(words) == \E w \in words : OccursIgnoringCase(w, line)
    IN  IF Has({<<"r", "e", "q", "u", "i", "r", "e", "m", "e", "n", "t">>,
                    <<"f", "u", "n", "c", "t", "i", "o", "n", "a", "l">>})
             THEN "requirements"
        ELSE IF Has({<<"s", "e", "c", "u", "r", "i", "t", "y">>,
                    <<"a", "u", "t", "h", "e", "n", "t", "i", "c", "a", "t", "i", "o", "n">>})
             THEN "security"
        ELSE IF Has({<<"p", "e", "r", "f", "o", "r", "m", "a", "n", "c", "e">>,
                    <<"s", "c", "a", "l", "a", "b", "i", "l", "i", "t", "y">>})
             THEN "performance"
        ELSE IF Has({<<"i", "n", "t", "e", "r", "f", "a", "c", "e">>,
                    <<"u", "i">>,
                    <<"u", "s", "e", "r">>})
             THEN "interface"
        ELSE IF Has({<<"d", "a", "t", "a">>,
                    <<"d", "a", "t", "a", "b", "a", "s", "e">>})
             THEN "data"
        ELSE IF Has({<<"i", "n", "t", "e", "g", "r", "a", "t", "i", "o", "n">>,
                    <<"a", "p", "i">>})
             THEN "integration"
        ELSE IF Has({<<"a", "s", "s", "u", "m", "p", "t", "i", "o", "n">>,
                    <<"c", "o", "n", "s", "t", "r", "a", "i", "n", "t">>})
             THEN "assumptions"
        ELSE "general"

\* the types of the header lines of the documents, written out
ExpectedType(line) ==
    CASE line = LineSecurityRequirements -> "requirements"
      [] line = LineFunctionalSecurity -> "requirements"
      [] line = LineSecurityOverview -> "security"
      [] line = LineUserAuthentication -> "security"
      [] line = LineAUTHENTICATION -> "security"
      [] line = LineApiPerformance -> "performance"
      [] line = LineScalability -> "performance"
      [] line = LineUserData -> "interface"
      [] line = LineBuildNotes -> "interface"
      [] line = LineBoldDataModel -> "data"
      [] line = LineDatabaseApi -> "data"
      [] line = LineApiConstraints -> "integration"
      [] line = LineAssumptions -> "assumptions"
      [] line = LineMiscNotes -> "general"
      [] line = LineMetrics -> "general"
      [] line = LineDetails -> "general"
      [] line = LineOVERVIEW -> "general"

\* C15: every section has the type of the first keyword group, in the order
\* requirements, security, performance, interface, data, integration,
\* assumptions, one of whose keywords occurs case-insensitively in its header
\* line, and 'general' when no group has one.
C15_FirstKeywordGroup ==
    /\ (pc = "loop" /\ i >= 1 /\ IsSectionHeaderLine(TrimmedLines[i])) =>
           /\ currentSection.type = KeywordType(TrimmedLines[i])
           /\ currentSection.type = ExpectedType(TrimmedLines[i])
    /\ (pc = "done" /\ ~Falsy(content)) =>
           \A k \in DOMAIN result : result[k].type = KeywordType(SectionHeaderLines[k])

\* headers with keywords of two groups, and one whose keyword is in upper
\* case, have got the type of the earlier group
C15_Witness ==
    /\ pc = "done"
    /\ TrimmedLines = <<LineDatabaseApi, LineApiConstraints, LineAssumptions,
                        LineBuildNotes, LineAUTHENTICATION>>
    /\ [k \in DOMAIN result |-> result[k].type]
           = <<"data", "integration", "assumptions", "interface", "security">>

\* the trimmed lines of an input, none for a falsy one
LinesOf(c) ==
    IF Falsy(c) THEN <<>>
    ELSE LET split == Split(c.chars, "\n")
         IN  [k \in DOMAIN split |-> Trim(split[k])]

\* the lines from the first section header line on
FromFirstHeader(ls) ==
    LET headers == {p \in DOMAIN ls : IsSectionHeaderLine(ls[p])}
    IN  IF headers = {} THEN <<>> ELSE SubSeq(ls, MinOf(headers), Len(ls))

\* C16: until the first section header is read no section, subsection or
\* item exists and both counters stay at 1, and the result is the result of
\* the input without the lines before its first section header (two inputs
\* that agree from their first section header on have the same result).
C16_NothingBeforeFirstHeader ==
    /\ (pc = "loop" /\ SectionHeadersUpTo(i) = {}) =>
           /\ sections = <<>>
           /\ currentSection = Null
           /\ currentSubsection = 0
           /\ heap = <<>>
           /\ sectionCounter = 1
           /\ subsectionCounter = 1
    /\ (pc = "done" /\ firstParse # <<>>
           /\ FromFirstHeader(LinesOf(content)) = FromFirstHeader(LinesOf(firstParse[1].input)))
           => result = firstParse[1].result

\* after the input '## Misc Notes', '  more text ' the same lines were parsed
\* with a subsection-like line and a table row before them, with the same
\* result
C16_Witness ==
    /\ pc = "done"
    /\ firstParse # <<>>
    /\ LinesOf(firstParse[1].input) = <<LineMiscNotes, Trim(LineIndented)>>
    /\ LinesOf(content) = <<LineScope, LineLatency, LineMiscNotes, Trim(LineIndented)>>
    /\ Len(result) = 1
    /\ result[1].number = 1
    /\ result[1].subsections = <<>>
    /\ Len(result[1].content) = 1
    /\ result = firstParse[1].result

\* a line that is neither blank nor a table row closes the open table: the
\* table becomes the next item of the container that was open before the
\* line, ahead of anything the line itself adds, and a container the line
\* opens starts empty
TableClosedIntoOpenContainer ==
    (pc = "loop" /\ pc' = "loop" /\ i < Len(lines) /\ CurrentLine # <<>>
        /\ PipeCount(CurrentLine) < 2 /\ currentTable # Null /\ currentSection # Null) =>
        LET line == CurrentLine
            before == OpenContent
            after == IF currentSubsection # 0 THEN heap'[currentSubsection].content
                     ELSE IF IsSectionHeader(line) THEN Last(sections').content
                     ELSE currentSection'.content
        IN  /\ currentTable' = Null
            /\ Len(after) > Len(before)
            /\ SubSeq(after, 1, Len(before)) = before
            /\ after[Len(before) + 1] = currentTable
            /\ IF IsSectionHeader(line)
               THEN /\ Len(after) = Len(before) + 1
                    /\ Len(sections') = Len(sections) + 1
                    /\ Last(sections').number = currentSection.number
                    /\ currentSection'.content = <<>>
               ELSE IF IsSubsectionHeader(line)
               THEN /\ Len(after) = Len(before) + 1
                    /\ heap'[currentSubsection'].content = <<>>
                    /\ currentSubsection' # currentSubsection
               ELSE /\ Len(after) = Len(before) + 2
                    /\ after[Len(before) + 2] = formatLine(formatter, line)

\* blank lines and table rows leave the table open and the cursors alone
TableStaysOpen ==
    (pc = "loop" /\ pc' = "loop" /\ i < Len(lines) /\ currentTable # Null
        /\ (CurrentLine = <<>> \/ PipeCount(CurrentLine) >= 2)) =>
        /\ currentTable' # Null
        /\ UNCHANGED <<currentSection, currentSubsection, heap, sections>>

\* C17: an open table is closed by the first following non-blank line that is
\* not a table row: it is appended to the container that was open while its
\* rows were read (the open subsection, else the open section) before the
\* line is processed, so ahead of any item the line adds and never in the
\* section or subsection the line opens.
C17_TableClosedBeforeLine ==
    /\ [][TableClosedIntoOpenContainer]_vars
    /\ [][TableStaysOpen]_vars

\* a subsection header has just closed a table of an open subsection: the
\* table is in the earlier subsection and the new one is empty
C17_Witness ==
    /\ pc = "loop"
    /\ i >= 4
    /\ IsSubsectionHeaderLine(TrimmedLines[i])
    /\ isTableRow(TrimmedLines[i - 1])
    /\ currentTable = Null
    /\ currentSection # Null
    /\ currentSubsection # 0
    /\ Len(currentSection.subsections) = 2
    /\ heap[currentSection.subsections[1]].content # <<>>
    /\ Last(heap[currentSection.subsections[1]].content).type = "table"
    /\ heap[currentSubsection].content = <<>>
    /\ currentSection.content = <<>>

\* the lines strictly between the first and the last table row that are not
\* table rows
GapLines == (MinOf(TableRowIndices)..MaxOf(TableRowIndices)) \ TableRowIndices

\* the table rows of the document are two runs of header and data rows inside
\* one section, with only blank lines and content lines between them
TwoTableRuns ==
    /\ TableRowIndices # {}
    /\ GapLines # {}
    /\ GapLines = MinOf(GapLines)..MaxOf(GapLines)
    /\ SectionHeadersUpTo(MinOf(TableRowIndices) - 1) # {}
    /\ \A p \in TableRowIndices : TrimmedLines[p] \in RowLines
    /\ \A p \in GapLines : TrimmedLines[p] = <<>> \/ IsContentLine(TrimmedLines[p])
    /\ \A p \in MaxOf(TableRowIndices)..Len(lines) : ~IsSectionHeaderLine(TrimmedLines[p])

\* the table a run of header and data rows a..b stands for
TableOfRun(a, b) ==
    [headers |-> ExpectedCells(TrimmedLines[a]),
     rows |-> [r \in 1..(b - a) |-> ExpectedCells(TrimmedLines[a + r])]]

\* the tables of the result, by headers and rows
ResultTables ==
    LET IsTable(item) == item.type = "table"
        tables == SelectSeq(AllItems(result), IsTable)
    IN  [k \in DOMAIN tables |-> [headers |-> tables[k].headers, rows |-> tables[k].rows]]

\* C18 as stated: two tables that follow one another inside a section,
\* separated by blank lines or by a non-table line, give two table items,
\* each with its own header and rows.
C18_ConsecutiveTablesIndependent ==
    (pc = "done" /\ ~Falsy(content) /\ TwoTableRuns) =>
        ResultTables =
            <<TableOfRun(MinOf(TableRowIndices), MinOf(GapLines) - 1),
              TableOfRun(MaxOf(GapLines) + 1, MaxOf(TableRowIndices))>>

\* C18, amended: two tables inside a section with a non-blank line that is
\* not a table row between them give two table items, each with its own
\* header and rows; with only blank lines between them they are one table, the
\* rows of the second (its header row included) being data rows of the first.
C18_TablesSplitByNonBlankLine ==
    (pc = "done" /\ ~Falsy(content) /\ TwoTableRuns) =>
        LET a == MinOf(TableRowIndices)
            b == MinOf(GapLines) - 1
            c == MaxOf(GapLines) + 1
            d == MaxOf(TableRowIndices)
        IN  IF \E p \in GapLines : TrimmedLines[p] # <<>>
            THEN ResultTables = <<TableOfRun(a, b), TableOfRun(c, d)>>
            ELSE ResultTables =
                     << [headers |-> ExpectedCells(TrimmedLines[a]),
                         rows |-> TableOfRun(a, b).rows
                                  \o <<ExpectedCells(TrimmedLines[c])>>
                                  \o TableOfRun(c, d).rows] >>

\* two tables with a text line between them have been returned as two items
\* around the text item
C18_Witness ==
    /\ pc = "done"
    /\ TrimmedLines = <<LineMetrics, LineTableHeader, LineLatency, LinePlain,
                        LineTableHeader, LineThroughput>>
    /\ Len(result) = 1
    /\ Len(result[1].content) = 3
    /\ result[1].content[1].rows = <<ExpectedCells(LineLatency)>>
    /\ result[1].content[2].type = "text"
    /\ result[1].content[3].headers = ExpectedCells(LineTableHeader)
    /\ result[1].content[3].rows = <<ExpectedCells(LineThroughput)>>

\* the lines that are not blank
NonBlankLines(ls) == SelectSeq(ls, IsNonBlank)

\* the step on a blank line changes no cursor, counter, table or list
BlankLineChangesNothing ==
    (pc = "loop" /\ i < Len(lines) /\ CurrentLine = <<>>) =>
        /\ pc' = "loop"
        /\ UNCHANGED <<sections, currentSection, currentSubsection, sectionCounter,
                       subsectionCounter, currentTable, heap>>

\* two inputs with the same non-blank lines have the same result
SameResultWithoutBlanks ==
    (pc = "done" /\ firstParse # <<>>
        /\ NonBlankLines(LinesOf(content)) = NonBlankLines(LinesOf(firstParse[1].input)))
        => result = firstParse[1].result

\* C19: a blank (empty or whitespace-only) line changes no cursor and no
\* counter, and inputs that differ only in blank lines, wherever these are,
\* have identical result trees.
C19_BlankLinesNoEffect ==
    /\ [](SameResultWithoutBlanks)
    /\ [][BlankLineChangesNothing]_vars

\* a table parsed first without blank lines and then with a blank line
\* between its rows and one at the end: one table with both rows each time
C19_Witness ==
    /\ pc = "done"
    /\ firstParse # <<>>
    /\ LinesOf(firstParse[1].input) = <<LineMiscNotes, LineLatency, LineThroughput>>
    /\ LinesOf(content) = <<LineMiscNotes, LineLatency, <<>>, LineThroughput, <<>> >>
    /\ Len(result) = 1
    /\ Len(result[1].content) = 1
    /\ result[1].content[1].headers = ExpectedCells(LineLatency)
    /\ result[1].content[1].rows = <<ExpectedCells(LineThroughput)>>
    /\ result = firstParse[1].result

\* the rows of the open table that do not contain '---'
PlainRows ==
    LET IsPlain(row) == ~IsSeparatorRow(row)
    IN  SelectSeq(currentTable.rawContent, IsPlain)

\* C20 as stated: the first row of a table is its header row unless it
\* contains '---' (then it is skipped and the next row is taken), and every
\* row after the header row is a data row, in input order, as its trimmed
\* non-empty cells.
C20_RowsAfterHeaderAreData ==
    (pc = "loop" /\ currentTable # Null) =>
        LET raw == currentTable.rawContent
            plain == {k \in DOMAIN raw : ~IsSeparatorRow(raw[k])}
        IN  IF plain = {}
            THEN currentTable.headers = <<>> /\ currentTable.rows = <<>>
            ELSE LET h == MinOf(plain)
                 IN  /\ currentTable.headers = TableCells(raw[h])
                     /\ currentTable.rows =
                            [r \in 1..(Len(raw) - h) |-> TableCells(raw[h + r])]

\* C20, amended: a table row that contains '---' is skipped wherever it is
\* in the table; of the other rows the first with a non-empty cell is the
\* header row (rows without a non-empty cell before it leave the headers
\* empty) and every later one is a data row, in input order, as its trimmed
\* non-empty cells.
C20_SeparatorsSkippedEverywhere ==
    (pc = "loop" /\ currentTable # Null) =>
        LET plain == PlainRows
            withCells == {k \in DOMAIN plain : TableCells(plain[k]) # <<>>}
        IN  IF withCells = {}
            THEN currentTable.headers = <<>> /\ currentTable.rows = <<>>
            ELSE LET h == MinOf(withCells)
                 IN  /\ currentTable.headers = TableCells(plain[h])
                     /\ currentTable.rows =
                            [r \in 1..(Len(plain) - h) |-> TableCells(plain[h + r])]

\* a table read from a row without cells, a header row, a data row with
\* '---' in a cell and a data row: the header row and the last row are kept
C20_Witness ==
    /\ pc = "loop"
    /\ currentTable # Null
    /\ currentTable.rawContent =
           <<LineEmptyCells, LineTableHeader, LineDataDashes, LineLatency>>
    /\ currentTable.headers = ExpectedCells(LineTableHeader)
    /\ currentTable.rows = <<ExpectedCells(LineLatency)>>

\* the table items of the result
ResultTableItems ==
    LET IsTable(item) == item.type = "table"
    IN  SelectSeq(AllItems(result), IsTable)

\* C21 as stated: a table item has empty headers only when no row without
\* '---' was read for it; a table with data rows has headers, and the
\* raw-line rendering is reached only for tables without data rows.
C21_HeadersEmptyOnlyWithoutRows ==
    (pc = "done" /\ ~Falsy(content)) =>
        \A k \in DOMAIN ResultTableItems :
            LET table == ResultTableItems[k]
            IN  /\ table.headers = <<>> =>
                       \A r \in DOMAIN table.rawContent : IsSeparatorRow(table.rawContent[r])
                /\ table.rows # <<>> => table.headers # <<>>
                /\ renderTable(table) = "raw-lines" => table.rows = <<>>

\* C21, amended: a table item has empty headers exactly when no row without
\* '---' that has a non-empty cell was read for it; a table with data rows
\* has headers, and the raw-line rendering is reached only for tables without
\* data rows.
C21_HeadersEmptyOnlyWithoutCells ==
    (pc = "done" /\ ~Falsy(content)) =>
        \A k \in DOMAIN ResultTableItems :
            LET table == ResultTableItems[k]
            IN  /\ table.headers = <<>> <=>
                       \A r \in DOMAIN table.rawContent :
                           \/ IsSeparatorRow(table.rawContent[r])
                           \/ \A p \in DOMAIN table.rawContent[r] :
                                  table.rawContent[r][p] \in {"|", " "}
                /\ table.rows # <<>> => table.headers # <<>>
                /\ renderTable(table) = "raw-lines" => table.rows = <<>>

\* a returned table read from rows without cells around a separator row: no
\* headers, no rows, rendered as raw lines
C21_Witness ==
    /\ pc = "done"
    /\ TrimmedLines = <<LineMiscNotes, LineEmptyCells, LineTableSeparator, LineEmptyCells>>
    /\ Len(ResultTableItems) = 1
    /\ ResultTableItems[1].headers = <<>>
    /\ ResultTableItems[1].rows = <<>>
    /\ Len(ResultTableItems[1].rawContent) = 3
    /\ renderTable(ResultTableItems[1]) = "raw-lines"

\* seq is the beginning of longer
IsPrefix(seq, longer) ==
    Len(seq) <= Len(longer) /\ SubSeq(longer, 1, Len(seq)) = seq

\* no step of a call changes a section that was pushed, a subsection of a
\* pushed section, or a subsection superseded by a later header; the content
\* lists of the open section and subsection only grow at their end; and a
\* table row changes no content list, so no table in a list gets a row
ClosedStaysClosed ==
    pc = "loop" =>
        /\ IsPrefix(sections, sections')
        /\ \A k \in DOMAIN sections :
               \A j \in DOMAIN sections[k].subsections :
                   heap'[sections[k].subsections[j]] = heap[sections[k].subsections[j]]
        /\ \A a \in DOMAIN heap :
               /\ a # currentSubsection => heap'[a] = heap[a]
               /\ heap'[a].title = heap[a].title
               /\ heap'[a].number = heap[a].number
               /\ IsPrefix(heap[a].content, heap'[a].content)
        /\ (currentSection # Null /\ pc' = "loop" /\ ~IsSectionHeaderLine(CurrentLine)) =>
               /\ currentSection'.title = currentSection.title
               /\ currentSection'.type = currentSection.type
               /\ IsPrefix(currentSection.content, currentSection'.content)
               /\ IsPrefix(currentSection.subsections, currentSection'.subsections)
        /\ (currentSection # Null /\ pc' = "loop" /\ IsSectionHeaderLine(CurrentLine)) =>
               /\ Last(sections').title = currentSection.title
               /\ Last(sections').subsections = currentSection.subsections
               /\ currentSubsection' = 0
        /\ (pc' = "loop" /\ isTableRow(CurrentLine)) =>
               UNCHANGED <<sections, currentSection, heap>>

\* the returned tree holds the pushed sections as they were pushed
PushedSectionsReturned ==
    (pc = "done" /\ ~Falsy(content)) =>
        /\ Len(result) >= Len(sections) - 1
        /\ \A k \in DOMAIN sections : result[k] = Tree(sections, heap)[k]

\* C22: a section pushed to the result list, a subsection superseded by a
\* later header and a table appended to a content list are never changed by
\* a later line.
C22_ClosedNeverReopened ==
    /\ [](PushedSectionsReturned)
    /\ [][ClosedStaysClosed]_vars

\* a section with a subsection holding a table was pushed, and the section
\* after it has received a subsection and content since
C22_Witness ==
    /\ pc = "loop"
    /\ sections # <<>>
    /\ sections[1].subsections # <<>>
    /\ heap[sections[1].subsections[1]].content # <<>>
    /\ heap[sections[1].subsections[1]].content[1].type = "table"
    /\ currentSection # Null
    /\ currentSubsection # 0
    /\ heap[currentSubsection].content # <<>>

\* a content list with the type tag and the stored text of every item that
\* is not a table left out
ContentShape(items) ==
    [n \in DOMAIN items |->
        IF items[n].type = "table" THEN items[n] ELSE [type |-> "line"]]

SubsectionShape(sub) == [sub EXCEPT !.content = ContentShape(sub.content)]

\* a returned tree reduced to its structure
Structure(tree) ==
    [k \in DOMAIN tree |->
        [tree[k] EXCEPT
            !.content = ContentShape(tree[k].content),
            !.subsections = [j \in DOMAIN tree[k].subsections |->
                                SubsectionShape(tree[k].subsections[j])]]]

BothParsed ==
    /\ pc = "done"
    /\ firstParse # <<>>
    /\ formatter # firstParse[1].formatter
    /\ content = firstParse[1].input

CursorOnLastSubsection ==
    (pc = "loop" /\ currentSection # Null /\ currentSection.subsections # <<>>) =>
        currentSubsection = Last(currentSection.subsections)

\* a step taken while the open section has a subsection, other than that of
\* a section header, leaves the section's own content as it is and puts the
\* item it adds, a closed table or a content line, into one of the section's
\* subsections
OwnContentFrozen ==
    (pc = "loop" /\ currentSection # Null /\ currentSection.subsections # <<>>
        /\ ~(i < Len(lines) /\ IsSectionHeaderLine(CurrentLine))) =>
        LET after == IF pc' = "done" THEN Last(sections') ELSE currentSection'
            own == {after.subsections[j] : j \in DOMAIN after.subsections}
        IN  /\ after.content = currentSection.content
            /\ IsPrefix(currentSection.subsections, after.subsections)
            /\ \A a \in DOMAIN heap : a \notin own => heap'[a] = heap[a]
            /\ (pc' = "loop" /\ CurrentLine # <<>> /\ ~isTableRow(CurrentLine)
                    /\ currentTable # Null) =>
                   \E a \in own \cap DOMAIN heap :
                       /\ Len(heap'[a].content) > Len(heap[a].content)
                       /\ heap'[a].content[Len(heap[a].content) + 1] = currentTable
            /\ (pc' = "loop" /\ IsContentLine(CurrentLine)) =>
                   /\ Last(after.subsections) = Last(currentSection.subsections)
                   /\ Last(heap'[Last(after.subsections)].content)
                          = formatLine(formatter, CurrentLine)

\* C29: once a section has a subsection its own content list no longer
\* grows; every later content line and table up to the next section header
\* goes to one of its subsections, so that the section's own content
\* followed by its subsections is the input order.
C29_OwnContentStopsGrowing ==
    /\ [](CursorOnLastSubsection)
    /\ [][OwnContentFrozen]_vars

\* a section with content of its own has a subsection that has received a
\* content line and a table since
C29_Witness ==
    /\ pc = "done"
    /\ result # <<>>
    /\ result[1].content # <<>>
    /\ result[1].subsections # <<>>
    /\ Len(result[1].subsections[1].content) >= 2
    /\ result[1].subsections[1].content[2].type = "table"

\* the handleSave call k goes on after its await in this step
SaveSettledInStep(k) ==
    /\ k \in DOMAIN saves
    /\ saves[k].phase = "pending"
    /\ saves'[k].phase = "timer"

\* a save that does not succeed sets the status to 'error' and leaves the
\* contents, the edit mode and the tab alone; a save that succeeds makes the
\* submitted content the original content and ends edit mode
SettledSaveStep ==
    \A k \in DOMAIN saves :
        SaveSettledInStep(k) =>
            IF saves'[k].outcome = [kind |-> "resolved", result |-> [success |-> TRUE]]
            THEN /\ editor'.originalContent = saves[k].content
                 /\ ~editor'.isEditing
                 /\ editor'.saveStatus = SaveStatus("success", k)
            ELSE /\ editor'.originalContent = editor.originalContent
                 /\ editor'.editedContent = editor.editedContent
                 /\ editor'.isEditing = editor.isEditing
                 /\ editor'.activeTab = editor.activeTab
                 /\ editor'.hasChanges = editor.hasChanges
                 /\ editor'.saveStatus = SaveStatus("error", k)

\* C24: when onSave resolves with success false, resolves with no result or
\* throws, handleSave leaves originalContent, editedContent, isEditing and
\* activeTab unchanged and sets saveStatus to type 'error'; only a result with
\* success true makes originalContent the submitted content and ends edit mode.
C24_FailedSaveChangesOnlyStatus == [][SettledSaveStep]_vars

\* onSave resolved with no result: the status is 'error' and the editor is
\* still in edit mode with its unsaved text
C24_Witness ==
    /\ saves # <<>>
    /\ saves[1].phase = "timer"
    /\ saves[1].outcome = [kind |-> "resolved", result |-> UndefinedValue]
    /\ editor.saveStatus = SaveStatus("error", 1)
    /\ editor.isEditing
    /\ editor.hasChanges
    /\ editor.editedContent # editor.originalContent

\* C25: in every settled state of EditableTRDFormatter hasChanges is true
\* exactly when editedContent differs from originalContent, whatever the
\* interleaving of typing, Edit, Cancel, content prop changes and completions
\* of overlapping save requests; the Save button is never disabled while
\* unsaved edits exist.
C25_HasChangesTracksEdits ==
    editor.hasChanges <=> (editor.editedContent # editor.originalContent)

NoSaveInFlight == \A k \in DOMAIN saves : saves[k].phase # "pending"

\* C26: whenever EditableTRDFormatter is not in edit mode and no save request
\* is in flight, editedContent equals originalContent, also when the user
\* typed, cancelled or saved again while an earlier save request was pending
\* and that request then succeeded.
C26_ViewShowsSavedContent ==
    (~editor.isEditing /\ NoSaveInFlight) =>
        editor.editedContent = editor.originalContent

\* a clear-timer that fires while a status is shown removes the status of the
\* handleSave call that started it
OwnTimerClears ==
    \A k \in DOMAIN saves :
        (saves[k].phase = "timer" /\ saves'[k].phase = "fired"
            /\ editor.saveStatus # Null) =>
            editor.saveStatus.by = k

\* C27: a save status message is cleared only by the timer of the save that
\* set it; the clear-timer of an earlier handleSave never removes the
\* 'loading', 'success' or 'error' status set by a later handleSave.
C27_StatusClearedByOwnTimer == [][OwnTimerClears]_vars

\* the section whose property was written by the step
Toggled(sectionId) ==
    /\ sectionId \in DOMAIN expandedSections'
    /\ sectionId \in DOMAIN expandedSections =>
           expandedSections'[sectionId] # expandedSections[sectionId]

\* the toggled section changes between expanded and collapsed, every other
\* section is displayed as before
ToggleFlipsDisplay ==
    \A sectionId \in SectionIds :
        IF Toggled(sectionId)
        THEN isExpanded(expandedSections', sectionId)
                 # isExpanded(expandedSections, sectionId)
        ELSE isExpanded(expandedSections', sectionId)
                 = isExpanded(expandedSections, sectionId)

\* C28: each toggleSection(id) call flips whether that section is displayed
\* expanded: from the default, in which every section is displayed expanded,
\* the first toggle collapses the section and the second expands it again;
\* toggling one section never changes the display of another.
C28_ToggleFlipsDisplay == [][ToggleFlipsDisplay]_vars

AllLoadsSettled ==
    /\ loads # <<>>
    /\ \A k \in DOMAIN loads : loads[k].phase = "settled"

\* C30: after documentId changes and all outstanding loadComments requests
\* have settled, comments holds the response for the latest documentId and
\* isLoading is false; a late response for an earlier documentId never
\* overwrites the comments of the current document.
C30_CommentsOfLatestDocument ==
    AllLoadsSettled =>
        /\ ~commentsView.isLoading
        /\ commentsView.comments
               = LoadedComments(Last(loads).documentId, Last(loads).outcome)
        /\ \A n \in DOMAIN commentsView.comments :
               commentsView.comments[n].documentId = commentsView.documentId

====
